---- MODULE Spec2Model ----
(***************************************************************************)
(* State-vector simulator of quantum-playground (simulator.ts).            *)
(*                                                                         *)
(* Numbers.  A double is modelled exactly as an element of the ring        *)
(* Z[sqrt 2][1/2]: the record [a, b, e] stands for (a + b*sqrt(2)) / 2^e,  *)
(* kept in lowest terms.  Every matrix entry of the gate set at the angles *)
(* used here (multiples of pi/2) lies in this ring, so a tolerance         *)
(* comparison of the source becomes an equality of the model.              *)
(*                                                                         *)
(* Arguments.  A JS number handed to the API (a qubit count, a qubit       *)
(* index) is encoded as twice its value, so that the non-integer k + 1/2   *)
(* is the odd code 2k+1 and Number.isInteger is a parity test.  Angles are *)
(* given as an integer k standing for theta = k*pi/2.                      *)
(***************************************************************************)
EXTENDS Integers, Sequences, FiniteSets, TLC

VARIABLES
  state,     \* the StateVector the caller holds (simulateCircuit's local `state`)
  prev,      \* the StateVector as it was before the last kernel call
  last,      \* the last API call made: [kind, q1, q2, theta]
  err,       \* the error the last call threw, or OK
  visited,   \* index pairs <<i, j>> the last kernel loop processed, in order
  depth,     \* number of kernel calls made by hand since zeroState
  circuit,   \* the argument of the running simulateCircuit call
  pc,        \* position inside simulateCircuit
  stepIdx,   \* index of the step the outer loop of simulateCircuit is at
  opIdx,     \* index of the op the inner loop of simulateCircuit is at
  applied,   \* <<step index, op index>> of every applyOp call made, in order
  bloch,     \* the BlochVector the last blochVector call returned
  probs,     \* the Float64Array the last probabilities call returned
  gen,       \* the generator mulberry32 returned: its seed and t, the calls made
             \* (before the long run, whether it ran, since), the last value
  spc,       \* position inside sampleAllQubits
  args,      \* the arguments of the running sampleAllQubits call: <<probs, shots, seed>>
  loc,       \* the locals of the running sampleAllQubits call
  memo,      \* the first sampleAllQubits call that returned: its arguments and counts
  bits,      \* the last bitstring call: its arguments and the string it returned
  shared,    \* the last decodeSharePayload call: the parsed JSON and what was returned
  ed         \* the editor (useModel): its React state and the values derived from it

vars == <<state, prev, last, err, visited, depth, circuit, pc, stepIdx, opIdx, applied, bloch, probs,
          gen, spc, args, loc, memo, bits, shared, ed>>

-----------------------------------------------------------------------------
(* Bounds *)

MaxQubits == 2      \* widest register the caller works on by hand
MaxGates == 3       \* kernel calls made by hand on one register
MaxSteps == 2       \* steps of a circuit handed to simulateCircuit
MaxOps == 2         \* size of a circuit handed to simulateCircuit: its ops, an empty step counting as one
MaxShots == 3       \* largest shot count handed to sampleAllQubits
MaxDraws == 6       \* generator calls followed one by one, from the start and again after the long run
MaxChain == 3       \* widest register an entangling chain H, CNOT, CNOT, ... is run on
MaxBits == 6        \* widest register whose basis indices are formatted by bitstring
MaxEvents == 3      \* handlers of the editor that run after the first render

-----------------------------------------------------------------------------
(* Program constants *)

MAX_SIM_QUBITS == 20

-----------------------------------------------------------------------------
(* Encoded JS numbers *)

Enc(k) == 2 * k
Dec(x) == x \div 2
IsInteger(x) == x % 2 = 0

-----------------------------------------------------------------------------
(* Exact arithmetic on (a + b*sqrt 2) / 2^e *)

RECURSIVE Reduce(_)
Reduce(x) ==
  IF x.e > 0 /\ x.a % 2 = 0 /\ x.b % 2 = 0
  THEN Reduce([a |-> x.a \div 2, b |-> x.b \div 2, e |-> x.e - 1])
  ELSE x

Zero == [a |-> 0, b |-> 0, e |-> 0]
One == [a |-> 1, b |-> 0, e |-> 0]
MinusOne == [a |-> -1, b |-> 0, e |-> 0]
Sqrt1_2 == [a |-> 0, b |-> 1, e |-> 1]

Neg(x) == [a |-> -x.a, b |-> -x.b, e |-> x.e]

Add(x, y) ==
  LET m == IF x.e > y.e THEN x.e ELSE y.e
      sx == 2 ^ (m - x.e)
      sy == 2 ^ (m - y.e)
  IN Reduce([a |-> x.a * sx + y.a * sy, b |-> x.b * sx + y.b * sy, e |-> m])

Sub(x, y) == Add(x, Neg(y))

Mul(x, y) ==
  Reduce([a |-> x.a * y.a + 2 * x.b * y.b,
          b |-> x.a * y.b + x.b * y.a,
          e |-> x.e + y.e])

\* Math.cos(theta / 2) and Math.sin(theta / 2) for theta = k * pi/2
CosHalf(k) ==
  LET r == k % 8
  IN CASE r = 0 -> One
       [] r = 1 -> Sqrt1_2
       [] r = 2 -> Zero
       [] r = 3 -> Neg(Sqrt1_2)
       [] r = 4 -> MinusOne
       [] r = 5 -> Neg(Sqrt1_2)
       [] r = 6 -> Zero
       [] OTHER -> Sqrt1_2

SinHalf(k) ==
  LET r == k % 8
  IN CASE r = 0 -> Zero
       [] r = 1 -> Sqrt1_2
       [] r = 2 -> One
       [] r = 3 -> Sqrt1_2
       [] r = 4 -> Zero
       [] r = 5 -> Neg(Sqrt1_2)
       [] r = 6 -> MinusOne
       [] OTHER -> Neg(Sqrt1_2)

-----------------------------------------------------------------------------
(* Bitwise operators on non-negative integers *)

RECURSIVE BitAnd(_, _)
BitAnd(x, y) ==
  IF x = 0 \/ y = 0 THEN 0
  ELSE (x % 2) * (y % 2) + 2 * BitAnd(x \div 2, y \div 2)

RECURSIVE BitOr(_, _)
BitOr(x, y) ==
  IF x = 0 THEN y
  ELSE IF y = 0 THEN x
  ELSE (IF x % 2 = 1 \/ y % 2 = 1 THEN 1 ELSE 0) + 2 * BitOr(x \div 2, y \div 2)

RECURSIVE BitXor(_, _)
BitXor(x, y) ==
  IF x = 0 THEN y
  ELSE IF y = 0 THEN x
  ELSE (IF x % 2 = y % 2 THEN 0 ELSE 1) + 2 * BitXor(x \div 2, y \div 2)

\* 1 << k on int32: the shift count is taken modulo 32 and bit 31 is the sign
ShiftLeftOne(k) ==
  LET s == k % 32
  IN IF s = 31 THEN -(2 ^ 31) ELSE 2 ^ s

-----------------------------------------------------------------------------
(* Errors, by the message the source throws *)

OK == "ok"
InvalidQubitCount == "InvalidQubitCount"    \* 'Invalid qubit count' / 'Statevector simulation limited'
InvalidQubitIndex == "InvalidQubitIndex"    \* 'Invalid <label> index'
InvalidGateArgs == "InvalidGateArgs"        \* 'control and target must be different.'
InvalidStep == "InvalidStep"                \* 'Invalid step: multiple ops touch q'

-----------------------------------------------------------------------------
(* Validation helpers and zeroState *)

\* variant of assertValidQubitCount whose cap excludes MAX_SIM_QUBITS itself
assertValidQubitCountBelow(nQubits) ==
  IF ~IsInteger(nQubits) \/ nQubits <= Enc(0)
  THEN InvalidQubitCount
  ELSE IF nQubits >= Enc(MAX_SIM_QUBITS)
       THEN InvalidQubitCount
       ELSE OK

\* variant of assertValidQubitCount that lets the count 0 pass
assertValidQubitCountFromZero(nQubits) ==
  IF ~IsInteger(nQubits) \/ nQubits < Enc(0)
  THEN InvalidQubitCount
  ELSE IF nQubits > Enc(MAX_SIM_QUBITS)
       THEN InvalidQubitCount
       ELSE OK

assertValidQubitCount(nQubits) ==
  IF ~IsInteger(nQubits) \/ nQubits <= Enc(0)
  THEN InvalidQubitCount
  ELSE IF nQubits > Enc(MAX_SIM_QUBITS)
       THEN InvalidQubitCount
       ELSE OK

\* variant of maskForQubit that takes q0 as the least-significant bit
maskForQubitLSB(nQubits, qubitIndex) == ShiftLeftOne(qubitIndex)

\* nQubits is a validated count (plain integer), qubitIndex a validated index
maskForQubit(nQubits, qubitIndex) == ShiftLeftOne(nQubits - 1 - qubitIndex)

\* q is an encoded JS number
assertQubitIndex(nQubits, q) ==
  IF ~IsInteger(q) \/ q < Enc(0) \/ q >= Enc(nQubits)
  THEN InvalidQubitIndex
  ELSE OK

NoState == [nQubits |-> 0, re |-> <<>>, im |-> <<>>]

Length(arr) == Cardinality(DOMAIN arr)

zeroState(nQubits) ==
  LET e == assertValidQubitCount(nQubits)
  IN IF e # OK
     THEN [err |-> e, state |-> NoState]
     ELSE LET size == ShiftLeftOne(Dec(nQubits))
          IN [err |-> OK,
              state |-> [nQubits |-> Dec(nQubits),
                         re |-> [k \in 0..(size - 1) |-> IF k = 0 THEN One ELSE Zero],
                         im |-> [k \in 0..(size - 1) |-> Zero]]]

-----------------------------------------------------------------------------
(* Single-qubit kernel *)

Cx(r, i) == [re |-> r, im |-> i]

\* variant of singleQubitPair that stores slot i before it computes slot j
singleQubitPairOverwrite(buf, i, mask, m) ==
  LET j == BitOr(i, mask)
      aRe == buf.re[i]
      aIm == buf.im[i]
      bRe == buf.re[j]
      bIm == buf.im[j]
      out0Re == Add(Sub(Mul(m.m00.re, aRe), Mul(m.m00.im, aIm)),
                    Sub(Mul(m.m01.re, bRe), Mul(m.m01.im, bIm)))
      out0Im == Add(Add(Mul(m.m00.re, aIm), Mul(m.m00.im, aRe)),
                    Add(Mul(m.m01.re, bIm), Mul(m.m01.im, bRe)))
      out1Re == Add(Sub(Mul(m.m10.re, out0Re), Mul(m.m10.im, out0Im)),
                    Sub(Mul(m.m11.re, bRe), Mul(m.m11.im, bIm)))
      out1Im == Add(Add(Mul(m.m10.re, out0Im), Mul(m.m10.im, out0Re)),
                    Add(Mul(m.m11.re, bIm), Mul(m.m11.im, bRe)))
  IN [re |-> [buf.re EXCEPT ![i] = out0Re, ![j] = out1Re],
      im |-> [buf.im EXCEPT ![i] = out0Im, ![j] = out1Im],
      visited |-> Append(buf.visited, <<i, j>>)]

\* body of the loop of applySingleQubitMatrix for one i with the target bit clear
singleQubitPair(buf, i, mask, m) ==
  LET j == BitOr(i, mask)
      aRe == buf.re[i]
      aIm == buf.im[i]
      bRe == buf.re[j]
      bIm == buf.im[j]
      out0Re == Add(Sub(Mul(m.m00.re, aRe), Mul(m.m00.im, aIm)),
                    Sub(Mul(m.m01.re, bRe), Mul(m.m01.im, bIm)))
      out0Im == Add(Add(Mul(m.m00.re, aIm), Mul(m.m00.im, aRe)),
                    Add(Mul(m.m01.re, bIm), Mul(m.m01.im, bRe)))
      out1Re == Add(Sub(Mul(m.m10.re, aRe), Mul(m.m10.im, aIm)),
                    Sub(Mul(m.m11.re, bRe), Mul(m.m11.im, bIm)))
      out1Im == Add(Add(Mul(m.m10.re, aIm), Mul(m.m10.im, aRe)),
                    Add(Mul(m.m11.re, bIm), Mul(m.m11.im, bRe)))
  IN [re |-> [buf.re EXCEPT ![i] = out0Re, ![j] = out1Re],
      im |-> [buf.im EXCEPT ![i] = out0Im, ![j] = out1Im],
      visited |-> Append(buf.visited, <<i, j>>)]

\* `if (i & mask) continue`
singleQubitSkip(i, mask) == BitAnd(i, mask) # 0

RECURSIVE singleQubitLoop(_, _, _, _)
singleQubitLoop(buf, i, mask, m) ==
  IF i >= Length(buf.re) THEN buf
  ELSE IF singleQubitSkip(i, mask) THEN singleQubitLoop(buf, i + 1, mask, m)
  ELSE singleQubitLoop(singleQubitPair(buf, i, mask, m), i + 1, mask, m)

\* a kernel's outcome: the buffer it leaves, the error it threw, the pairs it processed
Thrown(st, e) == [state |-> st, err |-> e, visited |-> <<>>]
Done(st, buf) ==
  [state |-> [nQubits |-> st.nQubits, re |-> buf.re, im |-> buf.im],
   err |-> OK, visited |-> buf.visited]
Buf(st) == [re |-> st.re, im |-> st.im, visited |-> <<>>]

applySingleQubitMatrix(st, target, m) ==
  IF assertQubitIndex(st.nQubits, target) # OK
  THEN Thrown(st, InvalidQubitIndex)
  ELSE LET mask == maskForQubit(st.nQubits, Dec(target))
       IN Done(st, singleQubitLoop(Buf(st), 0, mask, m))

\* variant of matH with m11 = +s, which is not unitary
matHPlus ==
  [m00 |-> Cx(Sqrt1_2, Zero), m01 |-> Cx(Sqrt1_2, Zero),
   m10 |-> Cx(Sqrt1_2, Zero), m11 |-> Cx(Sqrt1_2, Zero)]

matH ==
  [m00 |-> Cx(Sqrt1_2, Zero), m01 |-> Cx(Sqrt1_2, Zero),
   m10 |-> Cx(Sqrt1_2, Zero), m11 |-> Cx(Neg(Sqrt1_2), Zero)]
matX ==
  [m00 |-> Cx(Zero, Zero), m01 |-> Cx(One, Zero),
   m10 |-> Cx(One, Zero), m11 |-> Cx(Zero, Zero)]
\* variant of matY with the sign of m10 taken from m01
matYSameSign ==
  [m00 |-> Cx(Zero, Zero), m01 |-> Cx(Zero, MinusOne),
   m10 |-> Cx(Zero, MinusOne), m11 |-> Cx(Zero, Zero)]

matY ==
  [m00 |-> Cx(Zero, Zero), m01 |-> Cx(Zero, MinusOne),
   m10 |-> Cx(Zero, One), m11 |-> Cx(Zero, Zero)]
matZ ==
  [m00 |-> Cx(One, Zero), m01 |-> Cx(Zero, Zero),
   m10 |-> Cx(Zero, Zero), m11 |-> Cx(MinusOne, Zero)]
matS ==
  [m00 |-> Cx(One, Zero), m01 |-> Cx(Zero, Zero),
   m10 |-> Cx(Zero, Zero), m11 |-> Cx(Zero, One)]
matT ==
  [m00 |-> Cx(One, Zero), m01 |-> Cx(Zero, Zero),
   m10 |-> Cx(Zero, Zero), m11 |-> Cx(Sqrt1_2, Sqrt1_2)]
matRX(theta) ==
  [m00 |-> Cx(CosHalf(theta), Zero), m01 |-> Cx(Zero, Neg(SinHalf(theta))),
   m10 |-> Cx(Zero, Neg(SinHalf(theta))), m11 |-> Cx(CosHalf(theta), Zero)]
matRY(theta) ==
  [m00 |-> Cx(CosHalf(theta), Zero), m01 |-> Cx(Neg(SinHalf(theta)), Zero),
   m10 |-> Cx(SinHalf(theta), Zero), m11 |-> Cx(CosHalf(theta), Zero)]
matRZ(theta) ==
  [m00 |-> Cx(CosHalf(theta), Neg(SinHalf(theta))), m01 |-> Cx(Zero, Zero),
   m10 |-> Cx(Zero, Zero), m11 |-> Cx(CosHalf(theta), SinHalf(theta))]

applyH(st, target) == applySingleQubitMatrix(st, target, matH)
applyX(st, target) == applySingleQubitMatrix(st, target, matX)
applyY(st, target) == applySingleQubitMatrix(st, target, matY)
applyZ(st, target) == applySingleQubitMatrix(st, target, matZ)
applyS(st, target) == applySingleQubitMatrix(st, target, matS)
applyT(st, target) == applySingleQubitMatrix(st, target, matT)
applyRX(st, target, theta) == applySingleQubitMatrix(st, target, matRX(theta))
applyRY(st, target, theta) == applySingleQubitMatrix(st, target, matRY(theta))
applyRZ(st, target, theta) == applySingleQubitMatrix(st, target, matRZ(theta))

-----------------------------------------------------------------------------
(* Two-qubit kernels *)

swapPair(buf, i, j) ==
  LET tmpRe == buf.re[i]
      tmpIm == buf.im[i]
  IN [re |-> [buf.re EXCEPT ![i] = buf.re[j], ![j] = tmpRe],
      im |-> [buf.im EXCEPT ![i] = buf.im[j], ![j] = tmpIm],
      visited |-> Append(buf.visited, <<i, j>>)]

\* variant of cnotSkip without the control test
cnotSkipNoControl(i, controlMask, targetMask) ==
  BitAnd(i, targetMask) # 0

\* the two `continue` tests of applyCNOT's loop
cnotSkip(i, controlMask, targetMask) ==
  BitAnd(i, controlMask) = 0 \/ BitAnd(i, targetMask) # 0

RECURSIVE cnotLoop(_, _, _, _)
cnotLoop(buf, i, controlMask, targetMask) ==
  IF i >= Length(buf.re) THEN buf
  ELSE IF cnotSkip(i, controlMask, targetMask)
       THEN cnotLoop(buf, i + 1, controlMask, targetMask)
       ELSE cnotLoop(swapPair(buf, i, BitOr(i, targetMask)), i + 1, controlMask, targetMask)

\* variant of applyCNOT without the control === target test
applyCNOTSameQubit(st, control, target) ==
  IF assertQubitIndex(st.nQubits, control) # OK THEN Thrown(st, InvalidQubitIndex)
  ELSE IF assertQubitIndex(st.nQubits, target) # OK THEN Thrown(st, InvalidQubitIndex)
  ELSE LET controlMask == maskForQubit(st.nQubits, Dec(control))
           targetMask == maskForQubit(st.nQubits, Dec(target))
       IN Done(st, cnotLoop(Buf(st), 0, controlMask, targetMask))

applyCNOT(st, control, target) ==
  IF assertQubitIndex(st.nQubits, control) # OK THEN Thrown(st, InvalidQubitIndex)
  ELSE IF assertQubitIndex(st.nQubits, target) # OK THEN Thrown(st, InvalidQubitIndex)
  ELSE IF control = target THEN Thrown(st, InvalidGateArgs)
  ELSE LET controlMask == maskForQubit(st.nQubits, Dec(control))
           targetMask == maskForQubit(st.nQubits, Dec(target))
       IN Done(st, cnotLoop(Buf(st), 0, controlMask, targetMask))

\* the two `continue` tests of applyCZ's loop
czSkip(i, controlMask, targetMask) ==
  BitAnd(i, controlMask) = 0 \/ BitAnd(i, targetMask) = 0

\* variant of czNegate that leaves the imaginary part
czNegateRe(buf, i) ==
  [re |-> [buf.re EXCEPT ![i] = Mul(buf.re[i], MinusOne)],
   im |-> buf.im,
   visited |-> Append(buf.visited, <<i, i>>)]

\* `re[i] *= -1; im[i] *= -1`
czNegate(buf, i) ==
  [re |-> [buf.re EXCEPT ![i] = Mul(buf.re[i], MinusOne)],
   im |-> [buf.im EXCEPT ![i] = Mul(buf.im[i], MinusOne)],
   visited |-> Append(buf.visited, <<i, i>>)]

RECURSIVE czLoop(_, _, _, _)
czLoop(buf, i, controlMask, targetMask) ==
  IF i >= Length(buf.re) THEN buf
  ELSE IF czSkip(i, controlMask, targetMask)
       THEN czLoop(buf, i + 1, controlMask, targetMask)
       ELSE czLoop(czNegate(buf, i), i + 1, controlMask, targetMask)

applyCZ(st, control, target) ==
  IF assertQubitIndex(st.nQubits, control) # OK THEN Thrown(st, InvalidQubitIndex)
  ELSE IF assertQubitIndex(st.nQubits, target) # OK THEN Thrown(st, InvalidQubitIndex)
  ELSE IF control = target THEN Thrown(st, InvalidGateArgs)
  ELSE LET controlMask == maskForQubit(st.nQubits, Dec(control))
           targetMask == maskForQubit(st.nQubits, Dec(target))
       IN Done(st, czLoop(Buf(st), 0, controlMask, targetMask))

\* variant of swapSkip without the `j < i` test
swapSkipBothWays(i, maskA, maskB) ==
  LET bitA == BitAnd(i, maskA)
      bitB == BitAnd(i, maskB)
  IN (bitA # 0) = (bitB # 0)

\* the two `continue` tests of applySWAP's loop
swapSkip(i, maskA, maskB) ==
  LET bitA == BitAnd(i, maskA)
      bitB == BitAnd(i, maskB)
      j == BitXor(BitXor(i, maskA), maskB)
  IN ((bitA # 0) = (bitB # 0)) \/ j < i

RECURSIVE swapLoop(_, _, _, _)
swapLoop(buf, i, maskA, maskB) ==
  IF i >= Length(buf.re) THEN buf
  ELSE IF swapSkip(i, maskA, maskB)
       THEN swapLoop(buf, i + 1, maskA, maskB)
       ELSE swapLoop(swapPair(buf, i, BitXor(BitXor(i, maskA), maskB)), i + 1, maskA, maskB)

applySWAP(st, a, b) ==
  IF assertQubitIndex(st.nQubits, a) # OK THEN Thrown(st, InvalidQubitIndex)
  ELSE IF assertQubitIndex(st.nQubits, b) # OK THEN Thrown(st, InvalidQubitIndex)
  ELSE IF a = b THEN [state |-> st, err |-> OK, visited |-> <<>>]
  ELSE LET maskA == maskForQubit(st.nQubits, Dec(a))
           maskB == maskForQubit(st.nQubits, Dec(b))
       IN Done(st, swapLoop(Buf(st), 0, maskA, maskB))

-----------------------------------------------------------------------------
(* Observables *)

Two == [a |-> 2, b |-> 0, e |-> 0]
MinusTwo == [a |-> -2, b |-> 0, e |-> 0]

\* body of the loop of blochVector for one i with the qubit's bit clear
blochPair(st, acc, i, mask) ==
  LET j == BitOr(i, mask)
      aRe == st.re[i]
      aIm == st.im[i]
      bRe == st.re[j]
      bIm == st.im[j]
  IN [rho00 |-> Add(acc.rho00, Add(Mul(aRe, aRe), Mul(aIm, aIm))),
      rho11 |-> Add(acc.rho11, Add(Mul(bRe, bRe), Mul(bIm, bIm))),
      rho01Re |-> Add(acc.rho01Re, Add(Mul(aRe, bRe), Mul(aIm, bIm))),
      rho01Im |-> Add(acc.rho01Im, Sub(Mul(aIm, bRe), Mul(aRe, bIm))),
      visited |-> Append(acc.visited, <<i, j>>)]

RECURSIVE blochLoop(_, _, _, _)
blochLoop(st, acc, i, mask) ==
  IF i >= Length(st.re) THEN acc
  ELSE IF BitAnd(i, mask) # 0 THEN blochLoop(st, acc, i + 1, mask)
  ELSE blochLoop(st, blochPair(st, acc, i, mask), i + 1, mask)

NoBloch == [x |-> Zero, y |-> Zero, z |-> Zero]

\* variant of blochVector with y = +2 * rho01Im
blochVectorPlusY(st, qubit) ==
  IF assertQubitIndex(st.nQubits, qubit) # OK
  THEN [err |-> InvalidQubitIndex, bloch |-> NoBloch, visited |-> <<>>]
  ELSE LET mask == maskForQubit(st.nQubits, Dec(qubit))
           acc == blochLoop(st, [rho00 |-> Zero, rho11 |-> Zero, rho01Re |-> Zero,
                                 rho01Im |-> Zero, visited |-> <<>>], 0, mask)
       IN [err |-> OK,
           bloch |-> [x |-> Mul(Two, acc.rho01Re),
                      y |-> Mul(Two, acc.rho01Im),
                      z |-> Sub(acc.rho00, acc.rho11)],
           visited |-> acc.visited]

blochVector(st, qubit) ==
  IF assertQubitIndex(st.nQubits, qubit) # OK
  THEN [err |-> InvalidQubitIndex, bloch |-> NoBloch, visited |-> <<>>]
  ELSE LET mask == maskForQubit(st.nQubits, Dec(qubit))
           acc == blochLoop(st, [rho00 |-> Zero, rho11 |-> Zero, rho01Re |-> Zero,
                                 rho01Im |-> Zero, visited |-> <<>>], 0, mask)
       IN [err |-> OK,
           bloch |-> [x |-> Mul(Two, acc.rho01Re),
                      y |-> Mul(MinusTwo, acc.rho01Im),
                      z |-> Sub(acc.rho00, acc.rho11)],
           visited |-> acc.visited]

\* variant of probLoop that squares the real part only
RECURSIVE probLoopRealOnly(_, _, _)
probLoopRealOnly(st, out, i) ==
  IF i >= Length(out) THEN out
  ELSE LET r == st.re[i]
       IN probLoopRealOnly(st, [out EXCEPT ![i] = Mul(r, r)], i + 1)

\* the loop of probabilities, from index i on
RECURSIVE probLoop(_, _, _)
probLoop(st, out, i) ==
  IF i >= Length(out) THEN out
  ELSE LET r == st.re[i]
           ii == st.im[i]
       IN probLoop(st, [out EXCEPT ![i] = Add(Mul(r, r), Mul(ii, ii))], i + 1)

NoProbs == <<>>

\* new Float64Array(state.re.length) is filled with zeros
probabilities(st) == probLoop(st, [k \in 0..(Length(st.re) - 1) |-> Zero], 0)

-----------------------------------------------------------------------------
(* 32-bit words and integer-valued doubles *)

\* A uint32 is the record [hi, lo] of its two 16-bit halves, and a double
\* that holds a non-negative integer is the tuple <<l0, l1, l2, l3>> of its
\* 16-bit limbs, least significant first.

Word(hi, lo) == [hi |-> hi, lo |-> lo]

WordXor(x, y) == Word(BitXor(x.hi, y.hi), BitXor(x.lo, y.lo))
WordOr(x, y) == Word(BitOr(x.hi, y.hi), BitOr(x.lo, y.lo))

\* x >>> k for 0 < k < 16
ShiftRight(x, k) ==
  Word(x.hi \div 2 ^ k, (x.hi % 2 ^ k) * 2 ^ (16 - k) + x.lo \div 2 ^ k)

\* x + y truncated to 32 bits
WordAdd(x, y) ==
  Word((x.hi + y.hi + (x.lo + y.lo) \div 2 ^ 16) % 2 ^ 16, (x.lo + y.lo) % 2 ^ 16)

\* product of two 16-bit numbers
Mul16(x, y) ==
  LET p1 == x * (y \div 256)
      p0 == x * (y % 256)
      low == (p1 % 256) * 256 + p0
  IN Word(p1 \div 256 + low \div 2 ^ 16, low % 2 ^ 16)

\* Math.imul: the low 32 bits of the product
imul(x, y) ==
  WordAdd(Mul16(x.lo, y.lo),
          Word((Mul16(x.hi, y.lo).lo + Mul16(x.lo, y.hi).lo) % 2 ^ 16, 0))

RECURSIVE BigCarry(_, _, _)
BigCarry(x, k, carry) ==
  IF k > Len(x) THEN <<>>
  ELSE <<(x[k] + carry) % 2 ^ 16>> \o BigCarry(x, k + 1, (x[k] + carry) \div 2 ^ 16)

\* exact sum of two integers given by their limbs
BigAdd(x, y) == BigCarry([k \in 1..4 |-> x[k] + y[k]], 1, 0)

BigOfWord(w) == <<w.lo, w.hi, 0, 0>>

\* position of the leading bit of a positive integer
RECURSIVE Log2(_)
Log2(n) == IF n < 2 THEN 0 ELSE 1 + Log2(n \div 2)

\* the double nearest to an integer below 2^64, ties to the even mantissa:
\* below 2^53 the integer itself, above it a multiple of ulp = 2^k whose
\* quotient by ulp is even when the integer is half-way
RoundToDouble(x) ==
  IF x[4] < 32 THEN x
  ELSE LET k == Log2(x[4]) - 4
           rest == x[1] % 2 ^ k
           down == <<x[1] - rest, x[2], x[3], x[4]>>
           up == BigAdd(down, <<2 ^ k, 0, 0, 0>>)
           odd == (x[1] \div 2 ^ k) % 2 = 1
       IN IF 2 * rest < 2 ^ k THEN down
          ELSE IF 2 * rest > 2 ^ k THEN up
          ELSE IF odd THEN up ELSE down

\* x + y on doubles that hold integers
DoubleAdd(x, y) == RoundToDouble(BigAdd(x, y))

\* the low 32 bits of a double that holds a non-negative integer: what the
\* bitwise operators see of it
LowWord(x) == Word(x[2], x[1])

\* full product of two uint32
WordMul(x, y) ==
  LET ll == Mul16(x.lo, y.lo)
      lh == Mul16(x.lo, y.hi)
      hl == Mul16(x.hi, y.lo)
      hh == Mul16(x.hi, y.hi)
  IN BigAdd(BigAdd(<<ll.lo, ll.hi, 0, 0>>, <<0, lh.lo, lh.hi, 0>>),
            BigAdd(<<0, hl.lo, hl.hi, 0>>, <<0, 0, hh.lo, hh.hi>>))

\* x * m for a small m
BigScale(x, m) == BigCarry([k \in 1..4 |-> x[k] * m], 1, 0)

RECURSIVE BigLeqFrom(_, _, _)
BigLeqFrom(x, y, k) ==
  IF k = 0 THEN TRUE
  ELSE IF x[k] # y[k] THEN x[k] < y[k]
  ELSE BigLeqFrom(x, y, k - 1)

\* x <= y
BigLeq(x, y) == BigLeqFrom(x, y, 4)

-----------------------------------------------------------------------------
(* JS numbers handed to the sampler *)

\* A number argument is [kind, neg, mag, half]: kind is "finite", "NaN" or
\* "Infinity"; a finite one is (neg ? -1 : 1) * (mag + (half ? 1/2 : 0)) with
\* mag an integer given by its limbs.

Finite(neg, mag, half) == [kind |-> "finite", neg |-> neg, mag |-> mag, half |-> half]
Num(k) == Finite(k < 0, <<(IF k < 0 THEN -k ELSE k), 0, 0, 0>>, FALSE)
NumHalf(k) == Finite(FALSE, <<k, 0, 0, 0>>, TRUE)
NaN == [kind |-> "NaN", neg |-> FALSE, mag |-> <<0, 0, 0, 0>>, half |-> FALSE]
Infinity == [kind |-> "Infinity", neg |-> FALSE, mag |-> <<0, 0, 0, 0>>, half |-> FALSE]

\* x >>> 0: NaN and the infinities give 0, a finite number is truncated
\* toward zero and reduced modulo 2^32
ToUint32(x) ==
  LET m == LowWord(x.mag)
      c == WordAdd(Word(65535 - m.hi, 65535 - m.lo), Word(0, 1))
  IN IF x.kind # "finite" THEN Word(0, 0)
     ELSE IF x.neg THEN c
     ELSE m

\* Math.floor of a finite number whose floor fits an int
Floor(x) ==
  LET m == x.mag[1] + x.mag[2] * 2 ^ 16
  IN IF x.neg THEN -m - (IF x.half THEN 1 ELSE 0) ELSE m

-----------------------------------------------------------------------------
(* mulberry32 *)

\* 0x6d2b79f5
Increment == Word(27947, 31221)

\* variant of rngOutput with a shift by 13 in the last line
rngOutputShift13(t) ==
  LET r1 == imul(WordXor(t, ShiftRight(t, 15)), WordOr(Word(0, 1), t))
      r2 == WordXor(r1, WordAdd(r1, imul(WordXor(r1, ShiftRight(r1, 7)), WordOr(Word(0, 61), r1))))
  IN WordXor(r2, ShiftRight(r2, 13))

\* the three lines after `t += 0x6d2b79f5`, on the 32 bits the bitwise
\* operators see of t; the result is the numerator of the fraction of 2^32
rngOutput(t) ==
  LET r1 == imul(WordXor(t, ShiftRight(t, 15)), WordOr(Word(0, 1), t))
      r2 == WordXor(r1, WordAdd(r1, imul(WordXor(r1, ShiftRight(r1, 7)), WordOr(Word(0, 61), r1))))
  IN WordXor(r2, ShiftRight(r2, 14))

\* variant of rng that truncates t to 32 bits after the addition
rngTruncating(t) ==
  LET next == BigOfWord(ToUint32(BigAdd(t, BigOfWord(Increment))))
  IN [t |-> next, out |-> rngOutput(LowWord(next))]

\* one call of the closure mulberry32 returns: the new t and the value
rng(t) ==
  LET next == DoubleAdd(t, BigOfWord(Increment))
  IN [t |-> next, out |-> rngOutput(LowWord(next))]

\* no call of sampleAllQubits has returned yet
NoMemo == [args |-> <<>>, counts |-> <<>>, others |-> 0]

\* variant of mulberry32 whose state carries over from the calls made before
mulberry32Shared(seed) ==
  BigOfWord(WordAdd(ToUint32(seed), IF memo = NoMemo THEN Word(0, 0) ELSE Increment))

\* let t = seed >>> 0
mulberry32(seed) == BigOfWord(ToUint32(seed))

-----------------------------------------------------------------------------
(* sampleAllQubits *)

\* variant of safeShotsOf that rounds up
safeShotsCeil(shots) ==
  LET m == shots.mag[1] + shots.mag[2] * 2 ^ 16
  IN IF shots.kind # "finite" \/ shots.neg THEN 0
     ELSE m + (IF shots.half THEN 1 ELSE 0)

\* Number.isFinite(shots) ? Math.max(0, Math.floor(shots)) : 0
safeShotsOf(shots) ==
  IF shots.kind # "finite" THEN 0
  ELSE IF Floor(shots) < 0 THEN 0
  ELSE Floor(shots)

\* new Uint32Array(n) / new Float64Array(n)
Uint32Array(n) == [k \in 0..(n - 1) |-> 0]
Float64Array(n) == [k \in 0..(n - 1) |-> Zero]

\* the loop that fills cdf with the running sums; the probabilities used
\* here are dyadic and few, so every sum is exact
RECURSIVE cdfLoop(_, _, _, _)
cdfLoop(p, cdf, total, i) ==
  IF i >= Length(p) THEN [cdf |-> cdf, total |-> total]
  ELSE cdfLoop(p, [cdf EXCEPT ![i] = Add(total, p[i])], Add(total, p[i]), i + 1)

\* r <= c for r = (u / 2^32) * total; u * total.a stays below 2^53, so the
\* product of the source is exact
rLeq(u, total, c) ==
  BigLeq(BigScale(BigOfWord(u), total.a * 2 ^ c.e),
         <<0, 0, c.a * 2 ^ total.e, 0>>)

\* variant of search that leaves mid out of the lower half
RECURSIVE searchBelowMid(_, _, _, _, _, _)
searchBelowMid(u, total, cdf, lo, hi, iters) ==
  IF ~(lo < hi) THEN [lo |-> lo, iters |-> iters]
  ELSE LET mid == (lo + hi) \div 2
       IN IF rLeq(u, total, cdf[mid]) THEN searchBelowMid(u, total, cdf, lo, mid - 1, iters + 1)
          ELSE searchBelowMid(u, total, cdf, mid + 1, hi, iters + 1)

\* the while loop of one shot: the index it ends on and the iterations made
RECURSIVE search(_, _, _, _, _, _)
search(u, total, cdf, lo, hi, iters) ==
  IF ~(lo < hi) THEN [lo |-> lo, iters |-> iters]
  ELSE LET mid == (lo + hi) \div 2
       IN IF rLeq(u, total, cdf[mid]) THEN search(u, total, cdf, lo, mid, iters + 1)
          ELSE search(u, total, cdf, mid + 1, hi, iters + 1)

NoGenerator == <<>>
NoDraw == Word(0, 0)

\* the locals of a call that returns counts before the generator is made
Returns(safeShots, counts) ==
  [done |-> TRUE, safeShots |-> safeShots, counts |-> counts, before |-> counts,
   cdf |-> <<>>, total |-> Zero, t |-> NoGenerator, s |-> 0, u |-> NoDraw,
   lo |-> 0, iters |-> 0]

\* variant of sampleEnter without the return on total === 0
sampleEnterNoTotalCheck(p, shots, seed) ==
  LET safeShots == safeShotsOf(shots)
      counts == Uint32Array(Length(p))
      sums == cdfLoop(p, Float64Array(Length(p)), Zero, 0)
  IN IF safeShots = 0 \/ Length(p) = 0 THEN Returns(safeShots, counts)
     ELSE [done |-> FALSE, safeShots |-> safeShots, counts |-> counts, before |-> counts,
           cdf |-> sums.cdf, total |-> sums.total, t |-> mulberry32(seed), s |-> 0,
           u |-> NoDraw, lo |-> 0, iters |-> 0]

\* sampleAllQubits up to its shot loop: the locals, and whether it returned
sampleEnter(p, shots, seed) ==
  LET safeShots == safeShotsOf(shots)
      counts == Uint32Array(Length(p))
      sums == cdfLoop(p, Float64Array(Length(p)), Zero, 0)
  IN IF safeShots = 0 \/ Length(p) = 0 THEN Returns(safeShots, counts)
     ELSE IF sums.total = Zero THEN Returns(safeShots, counts)
     ELSE [done |-> FALSE, safeShots |-> safeShots, counts |-> counts, before |-> counts,
           cdf |-> sums.cdf, total |-> sums.total, t |-> mulberry32(seed), s |-> 0,
           u |-> NoDraw, lo |-> 0, iters |-> 0]

\* one pass of the shot loop; a count stays far below 2^32 here
sampleShot(l) ==
  LET g == rng(l.t)
      found == search(g.out, l.total, l.cdf, 0, Length(l.cdf) - 1, 0)
  IN [l EXCEPT !.t = g.t, !.u = g.out, !.lo = found.lo, !.iters = found.iters,
               !.before = l.counts, !.counts[found.lo] = @ + 1, !.s = @ + 1]

-----------------------------------------------------------------------------
(* bitstring *)

\* A string is the tuple of its characters.

\* index.toString(2) for an integer index >= 0
RECURSIVE toString2(_)
toString2(index) ==
  IF index < 2 THEN <<IF index = 1 THEN "1" ELSE "0">>
  ELSE toString2(index \div 2) \o <<IF index % 2 = 1 THEN "1" ELSE "0">>

\* variant of padStart that pads at the end
RECURSIVE padEnd(_, _, _)
padEnd(str, targetLength, fill) ==
  IF Len(str) >= targetLength THEN str
  ELSE padEnd(str \o <<fill>>, targetLength, fill)

\* str.padStart(targetLength, fill) for a one-character fill
RECURSIVE padStart(_, _, _)
padStart(str, targetLength, fill) ==
  IF Len(str) >= targetLength THEN str
  ELSE padStart(<<fill>> \o str, targetLength, fill)

bitstring(index, nQubits) == padStart(toString2(index), nQubits, "0")

NoBits == [index |-> 0, nQubits |-> 0, text |-> <<>>]

-----------------------------------------------------------------------------
(* decodeSharePayload *)

\* A JSON value is a record with a field type: "undefined" (a missing
\* property), "null", "number" (with num), "string" (a non-empty one),
\* "array" (with items) or "object" (with one field per property).

JUndefined == [type |-> "undefined"]
JNull == [type |-> "null"]
JString == [type |-> "string"]
JNumber(x) == [type |-> "number", num |-> x]
JArray(items) == [type |-> "array", items |-> items]
JCircuit(nQubits, steps) == [type |-> "object", nQubits |-> nQubits, steps |-> steps]
JPayload(v, c, seed, shots) ==
  [type |-> "object", v |-> v, circuit |-> c, seed |-> seed, shots |-> shots]

\* x.name: undefined on a value without the property; reading a property of
\* null or undefined throws instead, and the callers test for that first
Get(x, name) ==
  IF x.type = "object" /\ name \in DOMAIN x THEN x[name] ELSE JUndefined

\* !x
Falsy(x) ==
  \/ x.type \in {"undefined", "null"}
  \/ /\ x.type = "number"
     /\ \/ x.num.kind = "NaN"
        \/ x.num.kind = "finite" /\ x.num.mag = <<0, 0, 0, 0>> /\ ~x.num.half

\* x !== 1
IsNotOne(x) == ~(x.type = "number" /\ x.num = Num(1))

\* Number.isFinite(x)
isFinite(x) == x.type = "number" /\ x.num.kind = "finite"

\* variant of decodeSharePayload that does not look at seed and shots
decodeSharePayloadNoSeedCheck(encoded) ==
  LET parsed == encoded.json
  IN IF ~encoded.wellFormed THEN JNull
     ELSE IF Falsy(parsed) \/ IsNotOne(Get(parsed, "v")) THEN JNull
     ELSE IF \/ Falsy(Get(parsed, "circuit"))
             \/ Get(Get(parsed, "circuit"), "nQubits").type # "number"
             \/ Get(Get(parsed, "circuit"), "steps").type # "array"
          THEN JNull
     ELSE parsed

\* decodeSharePayload; encoded is the string as base64UrlDecode and
\* JSON.parse treat it: whether both succeed, and the value parsed
decodeSharePayload(encoded) ==
  LET parsed == encoded.json
  IN IF ~encoded.wellFormed THEN JNull
     ELSE IF Falsy(parsed) \/ IsNotOne(Get(parsed, "v")) THEN JNull
     ELSE IF \/ Falsy(Get(parsed, "circuit"))
             \/ Get(Get(parsed, "circuit"), "nQubits").type # "number"
             \/ Get(Get(parsed, "circuit"), "steps").type # "array"
          THEN JNull
     ELSE IF ~isFinite(Get(parsed, "seed")) \/ ~isFinite(Get(parsed, "shots")) THEN JNull
     ELSE parsed

-----------------------------------------------------------------------------
(* Circuit executor *)

touchedQubits(op) ==
  CASE op.kind \in {"H", "X", "Y", "Z", "S", "T", "RX", "RY", "RZ", "MEASURE"} ->
         <<op.target>>
    [] op.kind \in {"CNOT", "CZ"} -> <<op.control, op.target>>
    [] op.kind = "SWAP" -> <<op.a, op.b>>

\* variant of validateQubits without the test of touched[q]
RECURSIVE validateQubitsNoOverlap(_, _, _, _)
validateQubitsNoOverlap(nQubits, qs, k, touched) ==
  IF k > Len(qs) THEN [err |-> OK, touched |-> touched]
  ELSE IF assertQubitIndex(nQubits, qs[k]) # OK
       THEN [err |-> InvalidQubitIndex, touched |-> touched]
       ELSE validateQubitsNoOverlap(nQubits, qs, k + 1,
                                    [touched EXCEPT ![Dec(qs[k])] = TRUE])

\* inner loop of validateStep: the qubits qs[k..] of one op
RECURSIVE validateQubits(_, _, _, _)
validateQubits(nQubits, qs, k, touched) ==
  IF k > Len(qs) THEN [err |-> OK, touched |-> touched]
  ELSE IF assertQubitIndex(nQubits, qs[k]) # OK
       THEN [err |-> InvalidQubitIndex, touched |-> touched]
       ELSE IF touched[Dec(qs[k])]
            THEN [err |-> InvalidStep, touched |-> touched]
            ELSE validateQubits(nQubits, qs, k + 1,
                                [touched EXCEPT ![Dec(qs[k])] = TRUE])

\* outer loop of validateStep: the ops step[k..]
RECURSIVE validateOps(_, _, _, _)
validateOps(nQubits, step, k, touched) ==
  IF k > Len(step) THEN OK
  ELSE LET r == validateQubits(nQubits, touchedQubits(step[k]), 1, touched)
       IN IF r.err # OK THEN r.err
          ELSE validateOps(nQubits, step, k + 1, r.touched)

\* variant of validateStep that looks at the first op of the step only
validateStepFirstOp(nQubits, step) ==
  validateOps(nQubits, IF step = <<>> THEN step ELSE <<step[1]>>, 1,
              [q \in 0..(nQubits - 1) |-> FALSE])

validateStep(nQubits, step) ==
  validateOps(nQubits, step, 1, [q \in 0..(nQubits - 1) |-> FALSE])

\* variant of applyOp in which MEASURE runs the X kernel on its target
applyOpMeasureFlips(st, op) ==
  CASE op.kind = "H" -> applyH(st, op.target)
    [] op.kind = "X" -> applyX(st, op.target)
    [] op.kind = "Y" -> applyY(st, op.target)
    [] op.kind = "Z" -> applyZ(st, op.target)
    [] op.kind = "S" -> applyS(st, op.target)
    [] op.kind = "T" -> applyT(st, op.target)
    [] op.kind = "RX" -> applyRX(st, op.target, op.theta)
    [] op.kind = "RY" -> applyRY(st, op.target, op.theta)
    [] op.kind = "RZ" -> applyRZ(st, op.target, op.theta)
    [] op.kind = "CNOT" -> applyCNOT(st, op.control, op.target)
    [] op.kind = "CZ" -> applyCZ(st, op.control, op.target)
    [] op.kind = "SWAP" -> applySWAP(st, op.a, op.b)
    [] op.kind = "MEASURE" -> applyX(st, op.target)

applyOp(st, op) ==
  CASE op.kind = "H" -> applyH(st, op.target)
    [] op.kind = "X" -> applyX(st, op.target)
    [] op.kind = "Y" -> applyY(st, op.target)
    [] op.kind = "Z" -> applyZ(st, op.target)
    [] op.kind = "S" -> applyS(st, op.target)
    [] op.kind = "T" -> applyT(st, op.target)
    [] op.kind = "RX" -> applyRX(st, op.target, op.theta)
    [] op.kind = "RY" -> applyRY(st, op.target, op.theta)
    [] op.kind = "RZ" -> applyRZ(st, op.target, op.theta)
    [] op.kind = "CNOT" -> applyCNOT(st, op.control, op.target)
    [] op.kind = "CZ" -> applyCZ(st, op.control, op.target)
    [] op.kind = "SWAP" -> applySWAP(st, op.a, op.b)
    [] op.kind = "MEASURE" -> [state |-> st, err |-> OK, visited |-> <<>>]

-----------------------------------------------------------------------------
(* The circuit editor: useModel *)

\* The editor is a record of the hook's state: tool, pending, circuit,
\* shots, seed, blochQubit and status, with shared (the decoded share link
\* of the first render), event (the handler that ran last, with its
\* arguments) and events (how many ran).  Qubit counts and qubit indices are
\* encoded JS numbers, step indices are array indices from 0, shots and seed
\* are number arguments as the sampler takes them.

MAX_QUBITS == 12
MAX_STEPS == 48

Null == [tool |-> "null"]

TwoQubitTools == {"CNOT", "CZ", "SWAP"}

RECURSIVE createEmptySteps(_)
createEmptySteps(steps) ==
  IF steps <= 0 THEN <<>> ELSE <<<<>>>> \o createEmptySteps(steps - 1)

\* createEmptyCircuit: Math.max(1, steps) empty steps
createEmptyCircuit(nQubits, steps) ==
  [nQubits |-> Enc(nQubits),
   steps |-> createEmptySteps(IF steps < 1 THEN 1 ELSE steps)]

bellPreset ==
  [nQubits |-> Enc(2),
   steps |-> <<<<[kind |-> "H", target |-> Enc(0)]>>,
               <<[kind |-> "CNOT", control |-> Enc(0), target |-> Enc(1)]>>,
               <<>>, <<>>>>]

ghz3Preset ==
  [nQubits |-> Enc(3),
   steps |-> <<<<[kind |-> "H", target |-> Enc(0)]>>,
               <<[kind |-> "CNOT", control |-> Enc(0), target |-> Enc(1)]>>,
               <<[kind |-> "CNOT", control |-> Enc(1), target |-> Enc(2)]>>,
               <<>>, <<>>>>]

swapPreset ==
  [nQubits |-> Enc(2),
   steps |-> <<<<[kind |-> "X", target |-> Enc(1)]>>,
               <<[kind |-> "SWAP", a |-> Enc(0), b |-> Enc(1)]>>,
               <<>>, <<>>>>]

\* the presets by id
presets ==
  [bell |-> bellPreset, ghz3 |-> ghz3Preset, swap |-> swapPreset,
   empty |-> createEmptyCircuit(2, 8)]

touchesQubit(op, q) ==
  CASE op.kind \in {"H", "X", "Y", "Z", "S", "T", "RX", "RY", "RZ", "MEASURE"} ->
         op.target = q
    [] op.kind \in {"CNOT", "CZ"} -> op.control = q \/ op.target = q
    [] op.kind = "SWAP" -> op.a = q \/ op.b = q

\* Math.max(min, Math.min(max, Math.floor(value))) for integers 0 <= min <= max
\* given as number arguments: NaN stays NaN
clampInt(value, min, max) ==
  LET up == IF value.half /\ value.neg THEN BigAdd(value.mag, <<1, 0, 0, 0>>)
            ELSE value.mag
      negative == value.neg /\ up # <<0, 0, 0, 0>>
      low == IF BigLeq(up, max.mag) THEN up ELSE max.mag
  IN IF value.kind = "NaN" THEN NaN
     ELSE IF value.kind = "Infinity" THEN (IF value.neg THEN min ELSE max)
     ELSE IF negative THEN min
     ELSE IF BigLeq(min.mag, low) THEN Finite(FALSE, low, FALSE)
     ELSE min

MaxShotsUI == Finite(FALSE, <<3392, 3, 0, 0>>, FALSE)
MaxSeedUI == Finite(FALSE, <<65535, 65535, 0, 0>>, FALSE)

\* the value of a small finite number argument as an encoded JS number
EncOf(x) ==
  (IF x.neg THEN -1 ELSE 1) * (2 * x.mag[1] + (IF x.half THEN 1 ELSE 0))

\* the circuit object of a decoded payload, read as the editor reads it
circuitOf(payload) ==
  [nQubits |-> EncOf(payload.circuit.nQubits.num),
   steps |-> payload.circuit.steps.items]

\* step stepIndex of the steps replaced by f of it
mapStep(steps, stepIndex, f(_)) ==
  [i \in 1..Len(steps) |-> IF i - 1 # stepIndex THEN steps[i] ELSE f(steps[i])]

\* first render with the share link encoded, or without one
useModel(hasLink, encoded) ==
  LET link == IF hasLink THEN decodeSharePayload(encoded) ELSE JNull
  IN [open |-> TRUE,
      shared |-> link,
      tool |-> "H",
      pending |-> Null,
      circuit |-> IF link = JNull THEN bellPreset ELSE circuitOf(link),
      shots |-> IF link = JNull THEN Num(1024) ELSE link.shots.num,
      seed |-> IF link = JNull THEN Num(1337) ELSE link.seed.num,
      blochQubit |-> Enc(0),
      status |-> "null",
      event |-> [name |-> "useModel"],
      events |-> 0]

selectTool(e, nextTool) == [e EXCEPT !.tool = nextTool, !.pending = Null]

\* the first error simulateCircuit raises from step k on, or OK
RECURSIVE simulateSteps(_, _)
simulateSteps(c, k) ==
  IF k > Len(c.steps) THEN OK
  ELSE IF validateStep(Dec(c.nQubits), c.steps[k]) # OK
       THEN validateStep(Dec(c.nQubits), c.steps[k])
       ELSE simulateSteps(c, k + 1)

\* the sim memo: whether simulateCircuit(circuit) returns a state, and the
\* error it raises otherwise
sim(e) ==
  LET error == IF assertValidQubitCount(e.circuit.nQubits) # OK
               THEN InvalidQubitCount
               ELSE simulateSteps(e.circuit, 1)
  IN [state |-> error = OK, probs |-> error = OK, error |-> error]

\* the counts memo: the call of sampleAllQubits it makes, if any
countsMemo(e) ==
  IF ~sim(e).probs THEN Null
  ELSE [tool |-> "sampleAllQubits",
        safeShots |-> clampInt(e.shots, Num(0), MaxShotsUI),
        safeSeed |-> clampInt(e.seed, Num(0), MaxSeedUI)]

\* the qubit index the bloch memo passes to blochVector
blochIndex(e) ==
  LET top == e.circuit.nQubits - Enc(1)
      low == IF top < e.blochQubit THEN top ELSE e.blochQubit
  IN IF Enc(0) > low THEN Enc(0) ELSE low

\* the bloch memo: the call of blochVector it makes, if any
blochMemo(e) ==
  IF ~sim(e).state THEN Null
  ELSE [tool |-> "blochVector", qubit |-> blochIndex(e)]

\* what the results panel renders: the error alone, or the tabs with the
\* amplitude table, the histogram and the Bloch vector of the current sim
results(e) ==
  IF sim(e).error # OK THEN [error |-> sim(e).error, of |-> Null]
  ELSE [error |-> OK, of |-> e.circuit]

\* variant of twoQubitClick that keeps the ops on the first-clicked qubit
twoQubitClickKeepsFirst(e, stepIndex, qubitIndex) ==
  LET a == e.pending.qubit
      b == qubitIndex
      op == IF e.tool = "SWAP" THEN [kind |-> "SWAP", a |-> a, b |-> b]
            ELSE [kind |-> e.tool, control |-> a, target |-> b]
      place(step) == SelectSeq(step, LAMBDA o : ~touchesQubit(o, b)) \o <<op>>
  IN IF e.pending = Null \/ e.pending.tool # e.tool \/ e.pending.step # stepIndex
     THEN [e EXCEPT !.pending = [tool |-> e.tool, step |-> stepIndex, qubit |-> qubitIndex]]
     ELSE IF e.pending.qubit = qubitIndex
          THEN [e EXCEPT !.pending = Null]
          ELSE [e EXCEPT !.pending = Null,
                         !.circuit.steps = mapStep(e.circuit.steps, stepIndex, place)]

\* onCellClick with a two-qubit tool selected
twoQubitClick(e, stepIndex, qubitIndex) ==
  LET a == e.pending.qubit
      b == qubitIndex
      op == IF e.tool = "SWAP" THEN [kind |-> "SWAP", a |-> a, b |-> b]
            ELSE [kind |-> e.tool, control |-> a, target |-> b]
      place(step) ==
        SelectSeq(step, LAMBDA o : ~touchesQubit(o, a) /\ ~touchesQubit(o, b)) \o <<op>>
  IN IF e.pending = Null \/ e.pending.tool # e.tool \/ e.pending.step # stepIndex
     THEN [e EXCEPT !.pending = [tool |-> e.tool, step |-> stepIndex, qubit |-> qubitIndex]]
     ELSE IF e.pending.qubit = qubitIndex
          THEN [e EXCEPT !.pending = Null]
          ELSE [e EXCEPT !.pending = Null,
                         !.circuit.steps = mapStep(e.circuit.steps, stepIndex, place)]

\* onCellClick with a single-qubit tool selected: a toggle
singleClick(e, stepIndex, qubitIndex) ==
  LET toggle(step) ==
        LET hadSame == \E k \in 1..Len(step) :
                         step[k].kind = e.tool /\ step[k].target = qubitIndex
            stripped == SelectSeq(step, LAMBDA o : ~touchesQubit(o, qubitIndex))
        IN IF hadSame THEN stripped
           ELSE stripped \o <<[kind |-> e.tool, target |-> qubitIndex]>>
  IN [e EXCEPT !.pending = Null,
               !.circuit.steps = mapStep(e.circuit.steps, stepIndex, toggle)]

\* qubitIndex is an encoded JS number
onCellClick(e, stepIndex, qubitIndex) ==
  LET erase(step) == SelectSeq(step, LAMBDA o : ~touchesQubit(o, qubitIndex))
      cleared == [e EXCEPT !.status = "null"]
  IN IF e.tool = "ERASE"
     THEN [cleared EXCEPT !.pending = Null,
                          !.circuit.steps = mapStep(e.circuit.steps, stepIndex, erase)]
     ELSE IF e.tool \in TwoQubitTools
          THEN twoQubitClick(cleared, stepIndex, qubitIndex)
          ELSE singleClick(cleared, stepIndex, qubitIndex)

\* addStep leaves pending alone
addStep(e) ==
  IF Len(e.circuit.steps) >= MAX_STEPS THEN e
  ELSE [e EXCEPT !.circuit.steps = Append(e.circuit.steps, <<>>)]

removeStep(e) ==
  IF Len(e.circuit.steps) <= 1 THEN [e EXCEPT !.pending = Null]
  ELSE [e EXCEPT !.pending = Null,
                 !.circuit.steps = SubSeq(e.circuit.steps, 1, Len(e.circuit.steps) - 1)]

addQubit(e) ==
  IF e.circuit.nQubits >= Enc(MAX_QUBITS) THEN [e EXCEPT !.pending = Null]
  ELSE [e EXCEPT !.pending = Null, !.circuit.nQubits = e.circuit.nQubits + Enc(1)]

\* Math.max(0, Math.min(circuit.nQubits - 2, q)) with the count of the
\* render the handler was made in
removeQubitBloch(e) ==
  LET top == e.circuit.nQubits - Enc(2)
      low == IF top < e.blochQubit THEN top ELSE e.blochQubit
  IN IF Enc(0) > low THEN Enc(0) ELSE low

\* variant of removeQubit that keeps pending
removeQubitKeepsPending(e) ==
  LET removed == e.circuit.nQubits - Enc(1)
      keep(step) == SelectSeq(step, LAMBDA o : ~touchesQubit(o, removed))
  IN IF e.circuit.nQubits <= Enc(1)
     THEN [e EXCEPT !.blochQubit = removeQubitBloch(e)]
     ELSE [e EXCEPT !.blochQubit = removeQubitBloch(e),
                    !.circuit = [nQubits |-> removed,
                                 steps |-> [i \in 1..Len(e.circuit.steps) |->
                                              keep(e.circuit.steps[i])]]]

removeQubit(e) ==
  LET removed == e.circuit.nQubits - Enc(1)
      keep(step) == SelectSeq(step, LAMBDA o : ~touchesQubit(o, removed))
  IN IF e.circuit.nQubits <= Enc(1)
     THEN [e EXCEPT !.pending = Null, !.blochQubit = removeQubitBloch(e)]
     ELSE [e EXCEPT !.pending = Null,
                    !.blochQubit = removeQubitBloch(e),
                    !.circuit = [nQubits |-> removed,
                                 steps |-> [i \in 1..Len(e.circuit.steps) |->
                                              keep(e.circuit.steps[i])]]]

clearCircuit(e) ==
  [e EXCEPT !.pending = Null,
            !.circuit.steps = [i \in 1..Len(e.circuit.steps) |-> <<>>]]

\* an id that is not a preset's leaves everything alone
loadPreset(e, id) ==
  IF id \notin DOMAIN presets THEN e
  ELSE [e EXCEPT !.pending = Null, !.circuit = presets[id], !.blochQubit = Enc(0)]

setShots(e, value) == [e EXCEPT !.shots = value]
setSeed(e, value) == [e EXCEPT !.seed = value]
setBlochQubit(e, value) == [e EXCEPT !.blochQubit = value]

\* copyShareLink: the clipboard takes the link or refuses it
copyShareLink(e, copied) ==
  [e EXCEPT !.status = IF copied THEN "copied" ELSE "failed"]

-----------------------------------------------------------------------------
(* Inputs *)

\* angles k*pi/2 handed to the rotation kernels by hand, and inside circuits
Thetas == {1, 2}

\* qubit arguments: 0..n-1, and out of range -1, 1/2 and n
GoodArgs(n) == {Enc(k) : k \in 0..(n - 1)}
BadArgs(n) == {Enc(-1), 1, Enc(n)}
KernelArgs(n) == GoodArgs(n) \cup BadArgs(n)
\* argument pairs: every pair in range, and a bad index first, second or twice
KernelPairs(n) ==
  (GoodArgs(n) \X GoodArgs(n))
  \cup {<<x, Enc(0)>> : x \in BadArgs(n)}
  \cup {<<Enc(0), x>> : x \in BadArgs(n)}
  \cup {<<x, x>> : x \in BadArgs(n)}
\* qubit counts: -1, 0, 1/2, 3/2, 1..MaxQubits and the two sides of the cap
SmallCounts == {Enc(k) : k \in 1..MaxQubits}
BadCounts == {Enc(-1), Enc(0), 1, 3, Enc(MAX_SIM_QUBITS + 1)}
CountInputs == SmallCounts \cup BadCounts \cup {Enc(MAX_SIM_QUBITS)}
\* qubit counts of the circuits handed to simulateCircuit
CircuitCounts == {Enc(1), Enc(2)}

\* ops of a circuit on n qubits: every kind once, on the first qubit, on the
\* last qubit or on both (the same qubit twice when n = 1), SWAP of the first
\* qubit with itself, and X and MEASURE on the out-of-range qubit n
GateOps(n) ==
  LET first == Enc(0)
      final == Enc(n - 1)
  IN {[kind |-> k, target |-> first] : k \in {"H", "Y", "S", "MEASURE"}}
     \cup {[kind |-> k, target |-> final] : k \in {"X", "Z", "T"}}
     \cup {[kind |-> "RX", target |-> first, theta |-> 1],
           [kind |-> "RY", target |-> final, theta |-> 1],
           [kind |-> "RZ", target |-> first, theta |-> 1]}
     \cup {[kind |-> k, control |-> first, target |-> final] : k \in {"CNOT", "CZ"}}
     \cup {[kind |-> "SWAP", a |-> first, b |-> x] : x \in {first, final}}
     \cup {[kind |-> k, target |-> Enc(n)] : k \in {"X", "MEASURE"}}

\* lengths of the steps of a circuit
RECURSIVE SumTo(_, _)
SumTo(lens, k) == IF k = 0 THEN 0 ELSE lens[k] + SumTo(lens, k - 1)

\* size of a circuit: its ops, an empty step counting as one
RECURSIVE SizeTo(_, _)
SizeTo(lens, k) ==
  IF k = 0 THEN 0 ELSE (IF lens[k] = 0 THEN 1 ELSE lens[k]) + SizeTo(lens, k - 1)

\* nSteps steps of size at most MaxOps together
Shapes(nSteps) == {lens \in [1..nSteps -> 0..MaxOps] : SizeTo(lens, nSteps) <= MaxOps}

\* the steps of the given lengths, filled in order from the flat list ops
Assemble(lens, ops) ==
  [s \in 1..Len(lens) |-> SubSeq(ops, SumTo(lens, s - 1) + 1, SumTo(lens, s))]

\* a circuit with a bad count carries X on qubit 0
CircuitOps(nQubits) ==
  IF nQubits \in CircuitCounts THEN GateOps(Dec(nQubits))
  ELSE {[kind |-> "X", target |-> Enc(0)]}

\* seeds: small ones, the two ends of uint32, one past the end, a negative
\* one, a fraction, and NaN
Seeds ==
  {Num(0), Num(1), Num(1337), Finite(FALSE, <<65535, 65535, 0, 0>>, FALSE),
   Finite(FALSE, <<1337, 0, 1, 0>>, FALSE), Num(-1), NumHalf(1), NaN}

\* seeds handed to sampleAllQubits: the UI default, a negative one, NaN, and
\* 2^32 - 0x6d2b79f5, which makes t a multiple of 2^32 at the first draw
SamplerSeeds == {Num(1337), Num(-1), NaN, Finite(FALSE, <<34315, 37588, 0, 0>>, FALSE)}

\* shot counts: 0..MaxShots, a negative one, a fraction, NaN and Infinity
ShotInputs == {Num(k) : k \in -1..MaxShots} \cup {NumHalf(1), NaN, Infinity}

Dyadic(a, e) == Reduce([a |-> a, b |-> 0, e |-> e])

\* a Float64Array with the entries of a tuple
ArrayOf(seq) == [k \in 0..(Len(seq) - 1) |-> seq[k + 1]]

\* probability vectors: the empty array, an all-zero one, and the
\* distributions of |0>, X|0>, H|0>, the Bell state and H(x)H|00>
ProbInputs ==
  {ArrayOf(<<>>), ArrayOf(<<Zero, Zero>>), ArrayOf(<<One, Zero>>), ArrayOf(<<Zero, One>>),
   ArrayOf(<<Dyadic(1, 1), Dyadic(1, 1)>>),
   ArrayOf(<<Dyadic(1, 1), Zero, Zero, Dyadic(1, 1)>>),
   ArrayOf(<<Dyadic(1, 2), Dyadic(1, 2), Dyadic(1, 2), Dyadic(1, 2)>>)}

\* calls of the generator the shot loop makes in one long run; t stays below
\* 2^53 for every seed, so each of these additions is exact
LongRun == Word(75, 2555)

NoGen == [seed |-> NaN, t |-> NoGenerator, early |-> 0, ran |-> FALSE, drawn |-> 0, u |-> NoDraw]
NoArgs == <<>>
NoLocals == Returns(0, <<>>)

\* documents a share link may carry after decoding: values that are not a
\* payload object, and payload objects with each property present or
\* missing, of the right type or not, in and out of its range
PayloadVersions == {JNumber(Num(1)), JNumber(Num(2)), JString, JUndefined}
PayloadCounts ==
  {JNumber(Num(2)), JNumber(NumHalf(2)), JNumber(Num(13)), JNumber(Infinity), JString, JUndefined}
PayloadSteps == {JArray(<<>>), JArray(<<<<>>>>), JString, JUndefined}
PayloadCircuits ==
  {JUndefined, JNull, JString} \cup {JCircuit(n, st) : n \in PayloadCounts, st \in PayloadSteps}
PayloadSeeds == {JNumber(Num(1337)), JNumber(NumHalf(1)), JNumber(Infinity), JString, JUndefined}
PayloadShots == {JNumber(Num(1024)), JNumber(Infinity), JNull, JUndefined}
Documents ==
  {JNull, JNumber(Num(0)), JNumber(Num(1)), JString, JArray(<<>>)}
  \cup {JPayload(v, c, seed, shots) :
          v \in PayloadVersions, c \in PayloadCircuits, seed \in PayloadSeeds, shots \in PayloadShots}

NoShared == [encoded |-> [wellFormed |-> FALSE, json |-> JUndefined], result |-> JUndefined]
NoEditor == [open |-> FALSE]

\* tools the user picks: a single-qubit gate, two two-qubit gates and ERASE
ToolInputs == {"H", "CNOT", "SWAP", "ERASE"}

\* grid cells the user clicks: the first two steps, the first three qubits
StepInputs == {0, 1}
QubitInputs == {0, 1, 2}

\* the cells of the grid of circuit c among them
Cells(c) ==
  {<<s, q>> \in StepInputs \X QubitInputs : s < Len(c.steps) /\ Enc(q) + Enc(1) <= c.nQubits}

\* the options of the Bloch select of c: one per qubit; the first ones and
\* the last one are picked
BlochOptions(c) ==
  {Enc(q) : q \in {x \in QubitInputs : Enc(x) + Enc(1) <= c.nQubits}}
  \cup (IF c.nQubits >= Enc(1) THEN {Enc(Dec(c.nQubits) - 1)} ELSE {})

\* numbers typed into the shots and seed fields: one above the UI cap of
\* shots, a fraction; a seed
ShotValues == {Num(0), Finite(FALSE, <<3393, 3, 0, 0>>, FALSE), NumHalf(1)}
SeedValues == {Num(1)}

\* how often in a row a + or - button is pressed: once, up to the cap of
\* qubits from a preset, up to the cap of steps from a preset
QubitPresses == {1, 10}
StepPresses == {1, 44}

\* share links: the `c` parameter decodes to a payload with the circuit given
ShareLink(v, nQubits, steps, shots) ==
  [wellFormed |-> TRUE,
   json |-> JPayload(JNumber(Num(v)), JCircuit(JNumber(nQubits), JArray(steps)),
                     JNumber(Num(7)), JNumber(shots))]

\* a valid circuit on 3 qubits; one on 13 qubits; one on 2 qubits with two
\* ops on q0 in a step; one with 2.5 qubits; one with no qubit; and a link
\* of version 2
ShareLinks ==
  {ShareLink(1, Num(3),
             <<<<[kind |-> "H", target |-> Enc(2)]>>,
               <<[kind |-> "CZ", control |-> Enc(2), target |-> Enc(0)]>>>>,
             Finite(FALSE, <<37856, 4, 0, 0>>, FALSE)),
   ShareLink(1, Num(13), <<<<[kind |-> "H", target |-> Enc(12)]>>>>, Num(1024)),
   ShareLink(1, Num(2),
             <<<<[kind |-> "H", target |-> Enc(0)], [kind |-> "X", target |-> Enc(0)]>>,
               <<>>>>,
             Num(16)),
   ShareLink(1, NumHalf(2), <<<<>>>>, Num(16)),
   ShareLink(1, Num(0), <<<<>>>>, Num(16)),
   ShareLink(2, Num(2), <<<<>>>>, Num(16))}

\* the entangling chain on n qubits: H on q0, then CNOT(k -> k+1) for each
\* k, one op per step, followed by pad empty steps as in the presets
ChainSteps(n) ==
  [k \in 1..n |->
     IF k = 1 THEN <<[kind |-> "H", target |-> Enc(0)]>>
     ELSE <<[kind |-> "CNOT", control |-> Enc(k - 2), target |-> Enc(k - 1)]>>]
Chain(n, pad) == [nQubits |-> Enc(n), steps |-> ChainSteps(n) \o [k \in 1..pad |-> <<>>]]
Chains == {Chain(n, pad) : n \in 2..MaxChain, pad \in 0..3}

NoCircuit == [nQubits |-> 0, steps |-> <<>>]
NoCall == [kind |-> "none"]

-----------------------------------------------------------------------------
(* Actions *)

Init ==
  /\ state = NoState
  /\ prev = NoState
  /\ last = NoCall
  /\ err = OK
  /\ visited = <<>>
  /\ depth = 0
  /\ circuit = NoCircuit
  /\ pc = "idle"
  /\ stepIdx = 0
  /\ opIdx = 0
  /\ applied = <<>>
  /\ bloch = NoBloch
  /\ probs = NoProbs
  /\ gen = NoGen
  /\ spc = "idle"
  /\ args = NoArgs
  /\ loc = NoLocals
  /\ memo = NoMemo
  /\ bits = NoBits
  /\ shared = NoShared
  /\ ed = NoEditor

simVars == <<circuit, pc, stepIdx, opIdx, applied>>
samplerVars == <<gen, spc, args, loc, memo>>
uiVars == <<bits, shared, ed>>

\* the caller has not used the simulator, or the sampler, so far: a session
\* works on a register, runs circuits, or samples
SimulatorUnused == pc = "idle" /\ last = NoCall /\ state = NoState
SamplerUnused ==
  /\ gen = NoGen /\ spc = "idle" /\ memo = NoMemo
  /\ bits = NoBits /\ shared = NoShared /\ ed = NoEditor

\* the caller obtains a register
ZeroState ==
  /\ pc = "idle"
  /\ last = NoCall
  /\ state = NoState
  /\ SamplerUnused
  /\ \E nQubits \in CountInputs :
       LET r == zeroState(nQubits)
       IN /\ state' = r.state
          /\ err' = r.err
          /\ last' = [kind |-> "zeroState", nQubits |-> nQubits]
  /\ prev' = NoState
  /\ visited' = <<>>
  /\ depth' = 0
  /\ bloch' = NoBloch
  /\ probs' = NoProbs
  /\ UNCHANGED simVars
  /\ UNCHANGED samplerVars
  /\ UNCHANGED uiVars

\* the caller is between two calls: it holds a register and the last call,
\* if any, has returned and been left behind
Ready ==
  /\ pc = "idle"
  /\ state # NoState
  /\ err = OK
  /\ last = NoCall

\* the caller goes on to its next statement with the register as the call
\* left it; a thrown error ends the session instead
Proceed ==
  /\ pc = "idle"
  /\ state # NoState
  /\ state.nQubits <= MaxQubits
  /\ err = OK
  /\ last # NoCall
  /\ last' = NoCall
  /\ prev' = NoState
  /\ visited' = <<>>
  /\ bloch' = NoBloch
  /\ probs' = NoProbs
  /\ UNCHANGED <<state, err, depth>>
  /\ UNCHANGED simVars
  /\ UNCHANGED samplerVars
  /\ UNCHANGED uiVars

\* the caller may call a kernel by hand on the register it holds
CanCall ==
  /\ Ready
  /\ depth < MaxGates

Call(op, r) ==
  /\ state' = r.state
  /\ err' = r.err
  /\ visited' = r.visited
  /\ prev' = state
  /\ last' = op
  /\ depth' = depth + 1
  /\ bloch' = NoBloch
  /\ probs' = NoProbs
  /\ UNCHANGED simVars
  /\ UNCHANGED samplerVars
  /\ UNCHANGED uiVars

ApplyH ==
  /\ CanCall
  /\ \E t \in KernelArgs(state.nQubits) :
       Call([kind |-> "H", target |-> t], applyH(state, t))

ApplyX ==
  /\ CanCall
  /\ \E t \in KernelArgs(state.nQubits) :
       Call([kind |-> "X", target |-> t], applyX(state, t))

ApplyY ==
  /\ CanCall
  /\ \E t \in KernelArgs(state.nQubits) :
       Call([kind |-> "Y", target |-> t], applyY(state, t))

ApplyZ ==
  /\ CanCall
  /\ \E t \in KernelArgs(state.nQubits) :
       Call([kind |-> "Z", target |-> t], applyZ(state, t))

ApplyS ==
  /\ CanCall
  /\ \E t \in KernelArgs(state.nQubits) :
       Call([kind |-> "S", target |-> t], applyS(state, t))

ApplyT ==
  /\ CanCall
  /\ \E t \in KernelArgs(state.nQubits) :
       Call([kind |-> "T", target |-> t], applyT(state, t))

ApplyRX ==
  /\ CanCall
  /\ \E t \in KernelArgs(state.nQubits), th \in Thetas :
       Call([kind |-> "RX", target |-> t, theta |-> th], applyRX(state, t, th))

ApplyRY ==
  /\ CanCall
  /\ \E t \in KernelArgs(state.nQubits), th \in Thetas :
       Call([kind |-> "RY", target |-> t, theta |-> th], applyRY(state, t, th))

ApplyRZ ==
  /\ CanCall
  /\ \E t \in KernelArgs(state.nQubits), th \in Thetas :
       Call([kind |-> "RZ", target |-> t, theta |-> th], applyRZ(state, t, th))

ApplyCNOT ==
  /\ CanCall
  /\ \E p \in KernelPairs(state.nQubits) :
       Call([kind |-> "CNOT", control |-> p[1], target |-> p[2]], applyCNOT(state, p[1], p[2]))

ApplyCZ ==
  /\ CanCall
  /\ \E p \in KernelPairs(state.nQubits) :
       Call([kind |-> "CZ", control |-> p[1], target |-> p[2]], applyCZ(state, p[1], p[2]))

ApplySWAP ==
  /\ CanCall
  /\ \E p \in KernelPairs(state.nQubits) :
       Call([kind |-> "SWAP", a |-> p[1], b |-> p[2]], applySWAP(state, p[1], p[2]))

\* the caller reads the Bloch vector of one qubit of the register it holds
BlochVector ==
  /\ Ready
  /\ \E q \in KernelArgs(state.nQubits) :
       LET r == blochVector(state, q)
       IN /\ bloch' = r.bloch
          /\ err' = r.err
          /\ visited' = r.visited
          /\ last' = [kind |-> "blochVector", qubit |-> q]
  /\ prev' = state
  /\ UNCHANGED <<state, depth, probs>>
  /\ UNCHANGED simVars
  /\ UNCHANGED samplerVars
  /\ UNCHANGED uiVars

\* the caller reads the probabilities of the register it holds
Probabilities ==
  /\ Ready
  /\ probs' = probabilities(state)
  /\ last' = [kind |-> "probabilities"]
  /\ prev' = state
  /\ visited' = <<>>
  /\ UNCHANGED <<state, err, depth, bloch>>
  /\ UNCHANGED simVars
  /\ UNCHANGED samplerVars
  /\ UNCHANGED uiVars

\* simulateCircuit, entry: assertValidQubitCount and zeroState
Simulate(c) ==
  /\ circuit' = c
  /\ IF assertValidQubitCount(c.nQubits) # OK
     THEN /\ err' = assertValidQubitCount(c.nQubits)
          /\ state' = NoState
          /\ pc' = "thrown"
     ELSE /\ err' = zeroState(c.nQubits).err
          /\ state' = zeroState(c.nQubits).state
          /\ pc' = "steps"

SimulateCircuit ==
  /\ pc = "idle"
  /\ last = NoCall
  /\ state = NoState
  /\ SamplerUnused
  /\ \E nQubits \in CircuitCounts \cup BadCounts, nSteps \in 0..MaxSteps :
       \E lens \in Shapes(nSteps) :
         \E ops \in [1..SumTo(lens, nSteps) -> CircuitOps(nQubits)] :
           Simulate([nQubits |-> nQubits, steps |-> Assemble(lens, ops)])
  /\ last' = [kind |-> "simulateCircuit"]
  /\ stepIdx' = 1
  /\ opIdx' = 0
  /\ applied' = <<>>
  /\ prev' = NoState
  /\ visited' = <<>>
  /\ UNCHANGED <<depth, bloch, probs>>
  /\ UNCHANGED samplerVars
  /\ UNCHANGED uiVars

\* simulateCircuit, head of `for (const step of circuit.steps)`: validateStep or return
SimStep ==
  /\ pc = "steps"
  /\ IF stepIdx > Len(circuit.steps)
     THEN /\ pc' = "returned"
          /\ UNCHANGED <<err, opIdx>>
     ELSE LET e == validateStep(Dec(circuit.nQubits), circuit.steps[stepIdx])
          IN IF e # OK
             THEN /\ err' = e
                  /\ pc' = "thrown"
                  /\ UNCHANGED opIdx
             ELSE /\ pc' = "ops"
                  /\ opIdx' = 1
                  /\ UNCHANGED err
  /\ UNCHANGED <<state, prev, last, visited, depth, circuit, stepIdx, applied, bloch, probs>>
  /\ UNCHANGED samplerVars
  /\ UNCHANGED uiVars

\* variant of currentOp that always takes the first op of the step
currentOpFirst(c, s, o) == c.steps[s][1]

\* the op the inner loop of simulateCircuit is at
currentOp(c, s, o) == c.steps[s][o]

\* simulateCircuit, head of `for (const op of step)`: applyOp or next step
SimOp ==
  /\ pc = "ops"
  /\ IF opIdx > Len(circuit.steps[stepIdx])
     THEN /\ pc' = "steps"
          /\ stepIdx' = stepIdx + 1
          /\ UNCHANGED <<state, prev, last, err, visited, opIdx, applied>>
     ELSE LET op == currentOp(circuit, stepIdx, opIdx)
              r == applyOp(state, op)
          IN /\ state' = r.state
             /\ err' = r.err
             /\ visited' = r.visited
             /\ prev' = state
             /\ last' = op
             /\ applied' = Append(applied, <<stepIdx, opIdx>>)
             /\ IF r.err # OK
                THEN pc' = "thrown" /\ UNCHANGED opIdx
                ELSE pc' = "ops" /\ opIdx' = opIdx + 1
             /\ UNCHANGED stepIdx
  /\ UNCHANGED <<depth, circuit, bloch, probs>>
  /\ UNCHANGED samplerVars
  /\ UNCHANGED uiVars

\* the shot loop's `const rng = mulberry32(seed)`
Mulberry32 ==
  /\ SimulatorUnused
  /\ SamplerUnused
  /\ \E seed \in Seeds :
       gen' = [seed |-> seed, t |-> mulberry32(seed), early |-> 0, ran |-> FALSE,
               drawn |-> 0, u |-> NoDraw]
  /\ UNCHANGED <<state, prev, last, err, visited, depth, bloch, probs>>
  /\ UNCHANGED simVars
  /\ UNCHANGED <<spc, args, loc, memo>>
  /\ UNCHANGED uiVars

\* one call rng() of the shot loop
Rng ==
  /\ gen # NoGen
  /\ gen.drawn < MaxDraws
  /\ LET g == rng(gen.t)
     IN gen' = [gen EXCEPT !.t = g.t, !.u = g.out, !.drawn = @ + 1]
  /\ UNCHANGED <<state, prev, last, err, visited, depth, bloch, probs>>
  /\ UNCHANGED simVars
  /\ UNCHANGED <<spc, args, loc, memo>>
  /\ UNCHANGED uiVars

\* LongRun calls rng() of the shot loop in a row, while t is below 2^53:
\* each adds the increment to t exactly, and the values are not kept
RngLongRun ==
  /\ gen # NoGen
  /\ ~gen.ran
  /\ LET t == BigAdd(gen.t, WordMul(LongRun, Increment))
     IN /\ t[4] < 32
        /\ gen' = [gen EXCEPT !.t = t, !.early = gen.drawn, !.ran = TRUE,
                              !.drawn = 0, !.u = NoDraw]
  /\ UNCHANGED <<state, prev, last, err, visited, depth, bloch, probs>>
  /\ UNCHANGED simVars
  /\ UNCHANGED <<spc, args, loc, memo>>
  /\ UNCHANGED uiVars

\* a call sampleAllQubits(probs, shots, seed) up to its shot loop
SampleAllQubits ==
  /\ SimulatorUnused
  /\ gen = NoGen
  /\ bits = NoBits /\ shared = NoShared /\ ed = NoEditor
  /\ spc = "idle"
  /\ \E p \in ProbInputs, shots \in ShotInputs, seed \in SamplerSeeds :
       /\ args' = <<p, shots, seed>>
       /\ loc' = sampleEnter(p, shots, seed)
       /\ spc' = IF sampleEnter(p, shots, seed).done THEN "returned" ELSE "loop"
       /\ memo' = IF sampleEnter(p, shots, seed).done /\ memo = NoMemo
                  THEN [args |-> <<p, shots, seed>>,
                        counts |-> sampleEnter(p, shots, seed).counts, others |-> 0]
                  ELSE memo
  /\ UNCHANGED <<state, prev, last, err, visited, depth, bloch, probs>>
  /\ UNCHANGED simVars
  /\ UNCHANGED gen
  /\ UNCHANGED uiVars

\* one pass of the shot loop
SampleShot ==
  /\ spc = "loop"
  /\ loc.s < loc.safeShots
  /\ loc' = sampleShot(loc)
  /\ UNCHANGED <<state, prev, last, err, visited, depth, bloch, probs>>
  /\ UNCHANGED simVars
  /\ UNCHANGED <<gen, spc, args, memo>>
  /\ UNCHANGED uiVars

\* the shot loop ends and sampleAllQubits returns counts
SampleReturn ==
  /\ spc = "loop"
  /\ ~(loc.s < loc.safeShots)
  /\ spc' = "returned"
  /\ memo' = IF memo = NoMemo
             THEN [args |-> args, counts |-> loc.counts, others |-> 0]
             ELSE memo
  /\ UNCHANGED <<state, prev, last, err, visited, depth, bloch, probs>>
  /\ UNCHANGED simVars
  /\ UNCHANGED <<gen, args, loc>>
  /\ UNCHANGED uiVars

\* the caller goes on to its next statement; the locals of the call are gone
SampleProceed ==
  /\ spc = "returned"
  /\ spc' = "idle"
  /\ args' = NoArgs
  /\ loc' = NoLocals
  /\ memo' = IF memo.args # args /\ memo.others = 0
             THEN [memo EXCEPT !.others = 1]
             ELSE memo
  /\ UNCHANGED <<state, prev, last, err, visited, depth, bloch, probs>>
  /\ UNCHANGED simVars
  /\ UNCHANGED gen
  /\ UNCHANGED uiVars

\* a call bitstring(index, nQubits) on a basis index of an nQubits register,
\* as topAmplitudes and histogram make for every row
Bitstring ==
  /\ SimulatorUnused
  /\ gen = NoGen /\ spc = "idle" /\ memo = NoMemo
  /\ shared = NoShared /\ ed = NoEditor
  /\ \E nQubits \in 1..MaxBits :
       \E index \in 0..(2 ^ nQubits - 1) :
         bits' = [index |-> index, nQubits |-> nQubits, text |-> bitstring(index, nQubits)]
  /\ UNCHANGED <<state, prev, last, err, visited, depth, bloch, probs>>
  /\ UNCHANGED simVars
  /\ UNCHANGED samplerVars
  /\ UNCHANGED <<shared, ed>>

\* a call decodeSharePayload(encoded) on the `c` parameter of a URL
DecodeSharePayload ==
  /\ SimulatorUnused
  /\ gen = NoGen /\ spc = "idle" /\ memo = NoMemo
  /\ bits = NoBits /\ ed = NoEditor
  /\ \E ok \in BOOLEAN, doc \in Documents :
       /\ ok \/ doc = JNull
       /\ shared' = [encoded |-> [wellFormed |-> ok, json |-> doc],
                     result |-> decodeSharePayload([wellFormed |-> ok, json |-> doc])]
  /\ UNCHANGED <<state, prev, last, err, visited, depth, bloch, probs>>
  /\ UNCHANGED simVars
  /\ UNCHANGED samplerVars
  /\ UNCHANGED <<bits, ed>>

\* the editor is on screen and the user acts on it
EditorOpen == ed.open /\ ed.events < MaxEvents

\* the state after a handler named by event ran
Handled(e, event) == [e EXCEPT !.event = event, !.events = ed.events + 1]

\* one run of the handler named
Press(e, name) ==
  CASE name = "addStep" -> addStep(e)
    [] name = "removeStep" -> removeStep(e)
    [] name = "addQubit" -> addQubit(e)
    [] name = "removeQubit" -> removeQubit(e)

\* the handler run times times in a row: the first half of the runs, then
\* the rest on the state they leave
RECURSIVE Pressed(_, _, _)
Pressed(e, name, times) ==
  IF times = 0 THEN e
  ELSE IF times = 1 THEN Press(e, name)
  ELSE LET half == Pressed(e, name, times \div 2)
       IN IF half.open THEN Pressed(half, name, times - times \div 2) ELSE half

\* the page is opened, with a share link or without one
UseModel ==
  /\ SimulatorUnused
  /\ gen = NoGen /\ spc = "idle" /\ memo = NoMemo
  /\ bits = NoBits /\ shared = NoShared
  /\ ed = NoEditor
  /\ \/ ed' = useModel(FALSE, [wellFormed |-> FALSE, json |-> JUndefined])
     \/ \E encoded \in ShareLinks : ed' = useModel(TRUE, encoded)
  /\ UNCHANGED <<state, prev, last, err, visited, depth, bloch, probs>>
  /\ UNCHANGED simVars
  /\ UNCHANGED samplerVars
  /\ UNCHANGED <<bits, shared>>

EditorUnchanged ==
  /\ UNCHANGED <<state, prev, last, err, visited, depth, bloch, probs>>
  /\ UNCHANGED simVars
  /\ UNCHANGED samplerVars
  /\ UNCHANGED <<bits, shared>>

SelectTool ==
  /\ EditorOpen
  /\ \E nextTool \in ToolInputs :
       ed' = Handled(selectTool(ed, nextTool), [name |-> "selectTool", tool |-> nextTool])
  /\ EditorUnchanged

OnCellClick ==
  /\ EditorOpen
  /\ \E cell \in Cells(ed.circuit) :
       ed' = Handled(onCellClick(ed, cell[1], Enc(cell[2])),
                     [name |-> "onCellClick", step |-> cell[1], qubit |-> Enc(cell[2])])
  /\ EditorUnchanged

\* the handlers of the + and - buttons run in every state: a button that is
\* disabled at a cap only hides a call its handler refuses
AddStep ==
  /\ EditorOpen
  /\ \E times \in StepPresses :
       ed' = Handled(Pressed(ed, "addStep", times), [name |-> "addStep", times |-> times])
  /\ EditorUnchanged

RemoveStep ==
  /\ EditorOpen
  /\ \E times \in StepPresses :
       ed' = Handled(Pressed(ed, "removeStep", times), [name |-> "removeStep", times |-> times])
  /\ EditorUnchanged

AddQubit ==
  /\ EditorOpen
  /\ \E times \in QubitPresses :
       ed' = Handled(Pressed(ed, "addQubit", times), [name |-> "addQubit", times |-> times])
  /\ EditorUnchanged

RemoveQubit ==
  /\ EditorOpen
  /\ \E times \in QubitPresses :
       ed' = Handled(Pressed(ed, "removeQubit", times), [name |-> "removeQubit", times |-> times])
  /\ EditorUnchanged

ClearCircuit ==
  /\ EditorOpen
  /\ ed' = Handled(clearCircuit(ed), [name |-> "clearCircuit"])
  /\ EditorUnchanged

LoadPreset ==
  /\ EditorOpen
  /\ \E id \in DOMAIN presets :
       ed' = Handled(loadPreset(ed, id), [name |-> "loadPreset", id |-> id])
  /\ EditorUnchanged

SetShots ==
  /\ EditorOpen
  /\ \E value \in ShotValues :
       ed' = Handled(setShots(ed, value), [name |-> "setShots", value |-> value])
  /\ EditorUnchanged

SetSeed ==
  /\ EditorOpen
  /\ \E value \in SeedValues :
       ed' = Handled(setSeed(ed, value), [name |-> "setSeed", value |-> value])
  /\ EditorUnchanged

SetBlochQubit ==
  /\ EditorOpen
  /\ \E value \in BlochOptions(ed.circuit) :
       ed' = Handled(setBlochQubit(ed, value), [name |-> "setBlochQubit", value |-> value])
  /\ EditorUnchanged

CopyShareLink ==
  /\ EditorOpen
  /\ \E copied \in BOOLEAN :
       ed' = Handled(copyShareLink(ed, copied), [name |-> "copyShareLink", copied |-> copied])
  /\ EditorUnchanged

\* simulateCircuit is handed an entangling chain: the Bell and GHZ presets
\* and the GHZ circuit of the tests
SimulateChain ==
  /\ pc = "idle"
  /\ last = NoCall
  /\ state = NoState
  /\ SamplerUnused
  /\ \E c \in Chains : Simulate(c)
  /\ last' = [kind |-> "simulateCircuit"]
  /\ stepIdx' = 1
  /\ opIdx' = 0
  /\ applied' = <<>>
  /\ prev' = NoState
  /\ visited' = <<>>
  /\ UNCHANGED <<depth, bloch, probs>>
  /\ UNCHANGED samplerVars
  /\ UNCHANGED uiVars

\* blochVector on a qubit of the state a chain returned
ChainBloch ==
  /\ pc = "returned"
  /\ circuit \in Chains
  /\ \E q \in 0..(state.nQubits - 1) :
       LET r == blochVector(state, Enc(q))
       IN /\ bloch' = r.bloch
          /\ err' = r.err
          /\ visited' = r.visited
          /\ last' = [kind |-> "blochVector", qubit |-> Enc(q)]
  /\ prev' = state
  /\ UNCHANGED <<state, depth, probs>>
  /\ UNCHANGED simVars
  /\ UNCHANGED samplerVars
  /\ UNCHANGED uiVars

\* the caller works on a register by hand
KernelNext ==
  \/ ZeroState
  \/ Proceed
  \/ ApplyH
  \/ ApplyX
  \/ ApplyY
  \/ ApplyZ
  \/ ApplyS
  \/ ApplyT
  \/ ApplyRX
  \/ ApplyRY
  \/ ApplyRZ
  \/ ApplyCNOT
  \/ ApplyCZ
  \/ ApplySWAP
  \/ BlochVector
  \/ Probabilities

\* the caller hands a circuit to simulateCircuit
CircuitNext ==
  \/ SimulateCircuit
  \/ SimStep
  \/ SimOp

\* the generator of the shot loop, call after call
RngNext ==
  \/ Mulberry32
  \/ Rng
  \/ RngLongRun

\* the caller samples measurement outcomes
SamplerNext ==
  \/ SampleAllQubits
  \/ SampleShot
  \/ SampleReturn
  \/ SampleProceed

\* the caller runs an entangling chain and reads Bloch vectors
ChainNext ==
  \/ SimulateChain
  \/ SimStep
  \/ SimOp
  \/ ChainBloch

\* the caller formats basis indices
BitstringNext ==
  \/ Bitstring

\* the page reads its share link
DecodeNext ==
  \/ DecodeSharePayload

EditorNext ==
  \/ UseModel
  \/ SelectTool
  \/ OnCellClick
  \/ AddStep
  \/ RemoveStep
  \/ AddQubit
  \/ RemoveQubit
  \/ ClearCircuit
  \/ LoadPreset
  \/ SetShots
  \/ SetSeed
  \/ SetBlochQubit
  \/ CopyShareLink

Next ==
  \/ KernelNext
  \/ CircuitNext
  \/ RngNext
  \/ SamplerNext
  \/ ChainNext
  \/ BitstringNext
  \/ DecodeNext
  \/ EditorNext

Spec == Init /\ [][Next]_vars

KernelSpec == Init /\ [][KernelNext]_vars

CircuitSpec == Init /\ [][CircuitNext]_vars

RngSpec == Init /\ [][RngNext]_vars

SamplerSpec == Init /\ [][SamplerNext]_vars

ChainSpec == Init /\ [][ChainNext]_vars

BitstringSpec == Init /\ [][BitstringNext]_vars

DecodeSpec == Init /\ [][DecodeNext]_vars

EditorSpec == Init /\ [][EditorNext]_vars

\* the simulator alone: registers worked on by hand and circuits run
SimulatorNext ==
  \/ KernelNext
  \/ CircuitNext

SimulatorSpec == Init /\ [][SimulatorNext]_vars

-----------------------------------------------------------------------------
(* Vocabulary of the properties *)

SingleKinds == {"H", "X", "Y", "Z", "S", "T", "RX", "RY", "RZ"}
GateKinds == SingleKinds \cup {"CNOT", "CZ", "SWAP"}

\* value of qubit q in basis index i of an n-qubit register: bit n-1-q
BitOf(i, n, q) == (i \div (2 ^ (n - 1 - q))) % 2
\* weight of qubit q in a basis index
Weight(n, q) == 2 ^ (n - 1 - q)

\* x encodes an integer in [0, n)
InRange(x, n) == x \in {Enc(k) : k \in 0..(n - 1)}

Amp(st, k) == Cx(st.re[k], st.im[k])
CAdd(x, y) == Cx(Add(x.re, y.re), Add(x.im, y.im))
CMul(x, y) == Cx(Sub(Mul(x.re, y.re), Mul(x.im, y.im)), Add(Mul(x.re, y.im), Mul(x.im, y.re)))

RECURSIVE SumSq(_, _)
SumSq(st, k) ==
  IF k < 0 THEN Zero
  ELSE Add(Add(Mul(st.re[k], st.re[k]), Mul(st.im[k], st.im[k])), SumSq(st, k - 1))

NormSq(st) == SumSq(st, Length(st.re) - 1)

MatrixOf(op) ==
  CASE op.kind = "H" -> matH
    [] op.kind = "X" -> matX
    [] op.kind = "Y" -> matY
    [] op.kind = "Z" -> matZ
    [] op.kind = "S" -> matS
    [] op.kind = "T" -> matT
    [] op.kind = "RX" -> matRX(op.theta)
    [] op.kind = "RY" -> matRY(op.theta)
    [] op.kind = "RZ" -> matRZ(op.theta)

\* a kernel of the given kinds ran to completion in the last call
Ran(kinds) == last.kind \in kinds /\ err = OK

-----------------------------------------------------------------------------
(* Properties *)

\* C1: the squared amplitudes of the register sum to 1 after zeroState, after
\* every kernel call, between the steps of simulateCircuit and on its return.
C1_NormIsOne ==
  (state # NoState /\ state.nQubits <= MaxQubits) => NormSq(state) = One

C1_Witness ==
  /\ pc = "returned"
  /\ Len(applied) = 2
  /\ state.re[0] = Sqrt1_2
  /\ state.re[Length(state.re) - 1] = Sqrt1_2

\* C2: qubit q is bit n-1-q of the basis index.  X on qubit q of the zero
\* state leaves amplitude 1 at index 2^(n-1-q) and 0 elsewhere, and every loop
\* (single-qubit kernel, CNOT, CZ, SWAP, blochVector) pairs and selects the
\* indices by the bit of weight 2^(n-1-q).
C2_QubitIsBit ==
  LET n == state.nQubits
  IN /\ (Ran({"X"}) /\ prev = zeroState(Enc(n)).state) =>
          \A k \in DOMAIN state.re :
            /\ state.re[k] = (IF k = Weight(n, Dec(last.target)) THEN One ELSE Zero)
            /\ state.im[k] = Zero
     /\ Ran(SingleKinds) =>
          \A k \in 1..Len(visited) :
            /\ BitOf(visited[k][1], n, Dec(last.target)) = 0
            /\ visited[k][2] = visited[k][1] + Weight(n, Dec(last.target))
     /\ Ran({"blochVector"}) =>
          \A k \in 1..Len(visited) :
            /\ BitOf(visited[k][1], n, Dec(last.qubit)) = 0
            /\ visited[k][2] = visited[k][1] + Weight(n, Dec(last.qubit))
     /\ Ran({"CNOT"}) =>
          \A k \in 1..Len(visited) :
            /\ BitOf(visited[k][1], n, Dec(last.control)) = 1
            /\ BitOf(visited[k][1], n, Dec(last.target)) = 0
            /\ visited[k][2] = visited[k][1] + Weight(n, Dec(last.target))
     /\ Ran({"CZ"}) =>
          \A k \in 1..Len(visited) :
            /\ BitOf(visited[k][1], n, Dec(last.control)) = 1
            /\ BitOf(visited[k][1], n, Dec(last.target)) = 1
     /\ Ran({"SWAP"}) =>
          \A k \in 1..Len(visited) :
            LET i == visited[k][1]
                j == visited[k][2]
            IN /\ BitOf(i, n, Dec(last.a)) # BitOf(i, n, Dec(last.b))
               /\ BitOf(j, n, Dec(last.a)) = BitOf(i, n, Dec(last.b))
               /\ BitOf(j, n, Dec(last.b)) = BitOf(i, n, Dec(last.a))
               /\ \A q \in 0..(n - 1) :
                    q \notin {Dec(last.a), Dec(last.b)} => BitOf(j, n, q) = BitOf(i, n, q)

C2_Witness ==
  /\ Ran({"X"})
  /\ state.nQubits = 2
  /\ last.target = Enc(0)
  /\ prev = zeroState(Enc(2)).state
  /\ state.re[2] = One

\* C3: the single-qubit kernel processes every pair (i, i | mask) with the
\* target bit of i clear exactly once, so that every index is written exactly
\* once, and leaves m00*a + m01*b at i and m10*a + m11*b at j, where a and b
\* are the amplitudes at i and j before the call.
C3_SingleQubitKernel ==
  Ran(SingleKinds) =>
    LET n == state.nQubits
        w == Weight(n, Dec(last.target))
        m == MatrixOf(last)
        lows == {i \in DOMAIN prev.re : BitOf(i, n, Dec(last.target)) = 0}
    IN /\ \A i \in lows :
            Cardinality({k \in 1..Len(visited) : visited[k] = <<i, i + w>>}) = 1
       /\ \A x \in DOMAIN state.re :
            Cardinality({k \in 1..Len(visited) : x \in {visited[k][1], visited[k][2]}}) = 1
       /\ \A i \in lows :
            /\ Amp(state, i) =
                 CAdd(CMul(m.m00, Amp(prev, i)), CMul(m.m01, Amp(prev, i + w)))
            /\ Amp(state, i + w) =
                 CAdd(CMul(m.m10, Amp(prev, i)), CMul(m.m11, Amp(prev, i + w)))

C3_Witness ==
  /\ Ran({"H"})
  /\ state.nQubits = 2
  /\ \E k \in 1..Len(visited) :
       /\ Amp(prev, visited[k][1]) # Cx(Zero, Zero)
       /\ Amp(prev, visited[k][2]) # Cx(Zero, Zero)
       /\ Amp(state, visited[k][2]) = Cx(Zero, Zero)

\* index i with the bit of qubit q inverted
Flip(i, n, q) == IF BitOf(i, n, q) = 0 THEN i + Weight(n, q) ELSE i - Weight(n, q)

\* index i with the bits of qubits a and b exchanged
Exchange(i, n, a, b) ==
  IF BitOf(i, n, a) = BitOf(i, n, b) THEN i ELSE Flip(Flip(i, n, a), n, b)

\* C4: CNOT leaves at every index with the control bit set the amplitude that
\* was at the index with the target bit inverted, leaves every index with the
\* control bit clear alone, and swaps each pair (i, i | mask(t)) with the
\* control bit set exactly once.
C4_CNOT ==
  Ran({"CNOT"}) =>
    LET n == state.nQubits
        c == Dec(last.control)
        t == Dec(last.target)
        heads == {i \in DOMAIN prev.re : BitOf(i, n, c) = 1 /\ BitOf(i, n, t) = 0}
    IN /\ \A i \in DOMAIN state.re :
            Amp(state, i) = IF BitOf(i, n, c) = 1 THEN Amp(prev, Flip(i, n, t)) ELSE Amp(prev, i)
       /\ Len(visited) = Cardinality(heads)
       /\ \A i \in heads :
            Cardinality({k \in 1..Len(visited) : visited[k] = <<i, i + Weight(n, t)>>}) = 1

C4_Witness ==
  /\ Ran({"CNOT"})
  /\ state # prev
  /\ \E i \in DOMAIN prev.re :
       BitOf(i, state.nQubits, Dec(last.control)) = 0 /\ Amp(prev, i) # Cx(Zero, Zero)

\* C5: SWAP leaves at every index i the amplitude that was at i with the bits
\* of qubits a and b exchanged, swaps each pair of indices whose a- and b-bits
\* differ exactly once, and leaves the buffer alone when a = b.
C5_SWAP ==
  Ran({"SWAP"}) =>
    LET n == state.nQubits
        a == Dec(last.a)
        b == Dec(last.b)
        heads == {i \in DOMAIN prev.re : i < Exchange(i, n, a, b)}
    IN /\ \A i \in DOMAIN state.re : Amp(state, i) = Amp(prev, Exchange(i, n, a, b))
       /\ Len(visited) = Cardinality(heads)
       /\ \A i \in heads :
            Cardinality({k \in 1..Len(visited) : visited[k] = <<i, Exchange(i, n, a, b)>>}) = 1
       /\ a = b => (state = prev /\ visited = <<>>)

C5_Witness ==
  /\ Ran({"SWAP"})
  /\ last.a # last.b
  /\ state # prev
  /\ Len(visited) > 0

\* C6: CZ negates the real and the imaginary part of exactly the amplitudes
\* whose control and target bits are both set, leaves the others alone, and
\* gives the same buffer with control and target exchanged.
C6_CZ ==
  Ran({"CZ"}) =>
    LET n == state.nQubits
        c == Dec(last.control)
        t == Dec(last.target)
        both == {i \in DOMAIN prev.re : BitOf(i, n, c) = 1 /\ BitOf(i, n, t) = 1}
    IN /\ \A i \in both : Amp(state, i) = Cx(Neg(prev.re[i]), Neg(prev.im[i]))
       /\ \A i \in DOMAIN state.re \ both : Amp(state, i) = Amp(prev, i)
       /\ Len(visited) = Cardinality(both)
       /\ \A i \in both : Cardinality({k \in 1..Len(visited) : visited[k] = <<i, i>>}) = 1
       /\ state = applyCZ(prev, last.target, last.control).state

C6_Witness ==
  /\ Ran({"CZ"})
  /\ \E i \in DOMAIN prev.re :
       /\ BitOf(i, state.nQubits, Dec(last.control)) = 1
       /\ BitOf(i, state.nQubits, Dec(last.target)) = 1
       /\ prev.im[i] # Zero
       /\ state.im[i] = Neg(prev.im[i])

\* positions <<s, o>> of the ops of the steps s.. of a circuit, in list order
RECURSIVE Positions(_, _, _)
Positions(c, s, o) ==
  IF s > Len(c.steps) THEN <<>>
  ELSE IF o > Len(c.steps[s]) THEN Positions(c, s + 1, 1)
  ELSE <<<<s, o>>>> \o Positions(c, s, o + 1)

\* the register after the ops at the positions ps[k..] ran on st, each through its kernel
RECURSIVE RunFrom(_, _, _, _)
RunFrom(st, c, ps, k) ==
  IF k > Len(ps) THEN st
  ELSE RunFrom(applyOp(st, c.steps[ps[k][1]][ps[k][2]]).state, c, ps, k + 1)

\* C7: simulateCircuit returns the register obtained from zeroState(n) by
\* applying every op of every step once, in list order of the steps and of
\* the ops inside a step.
C7_StepsInOrder ==
  pc = "returned" =>
    /\ applied = Positions(circuit, 1, 1)
    /\ state = RunFrom(zeroState(circuit.nQubits).state, circuit, Positions(circuit, 1, 1), 1)

C7_Witness ==
  /\ pc = "returned"
  /\ applied = <<<<1, 1>>, <<2, 1>>>>
  /\ state # RunFrom(zeroState(circuit.nQubits).state, circuit, <<<<2, 1>>, <<1, 1>>>>, 1)

\* all qubits the ops of a step refer to are integers in [0, n)
StepInRange(step, n) ==
  \A k \in 1..Len(step) :
    \A x \in 1..Len(touchedQubits(step[k])) : InRange(touchedQubits(step[k])[x], n)

\* two different ops of the step touch a common qubit
TwoOpsOverlap(step) ==
  \E k, l \in 1..Len(step) :
    /\ k # l
    /\ \E x \in 1..Len(touchedQubits(step[k])), y \in 1..Len(touchedQubits(step[l])) :
         touchedQubits(step[k])[x] = touchedQubits(step[l])[y]

\* C8: with all qubit indices in range, simulateCircuit fails with InvalidStep
\* exactly when a step holds two different ops that touch a common qubit.
C8_InvalidStepIffTwoOpsOverlap ==
  (pc \in {"steps", "ops", "returned", "thrown"}
     /\ circuit.nQubits \in CircuitCounts
     /\ \A s \in 1..Len(circuit.steps) : StepInRange(circuit.steps[s], Dec(circuit.nQubits))) =>
    /\ (pc = "thrown" /\ err = InvalidStep) => TwoOpsOverlap(circuit.steps[stepIdx])
    /\ pc = "ops" => ~TwoOpsOverlap(circuit.steps[stepIdx])
    /\ pc = "returned" => \A s \in 1..Len(circuit.steps) : ~TwoOpsOverlap(circuit.steps[s])

\* C9: a kernel called by hand with a qubit index that is not an integer in
\* [0, n) throws InvalidQubitIndex, CNOT and CZ with control = target throw
\* InvalidGateArgs, and a kernel that throws leaves the buffer as it was.
C9_InvalidArgsLeaveBuffer ==
  (pc = "idle" /\ last.kind \in GateKinds) =>
    LET n == prev.nQubits
        qs == touchedQubits(last)
        inRange == \A k \in 1..Len(qs) : InRange(qs[k], n)
    IN /\ ~inRange => err = InvalidQubitIndex
       /\ (inRange /\ last.kind \in {"CNOT", "CZ"} /\ last.control = last.target) =>
            err = InvalidGateArgs
       /\ err # OK => state = prev

C9_Witness ==
  /\ pc = "idle"
  /\ last.kind = "CNOT"
  /\ last.control = last.target
  /\ err = InvalidGateArgs
  /\ depth = 3
  /\ state = prev

\* C10: zeroState(n) succeeds exactly for the integers 1..20 and then returns
\* 2^n amplitudes, 1 at index 0 and 0 elsewhere; for any other n it throws
\* InvalidQubitCount, and so does simulateCircuit before it looks at a step.
C10_ZeroState ==
  LET valid(x) == x \in {Enc(k) : k \in 1..20}
  IN /\ last.kind = "zeroState" =>
          /\ (err = OK) <=> valid(last.nQubits)
          /\ valid(last.nQubits) =>
               /\ state.nQubits = Dec(last.nQubits)
               /\ state.re = [k \in 0..(2 ^ Dec(last.nQubits) - 1) |->
                                IF k = 0 THEN One ELSE Zero]
               /\ state.im = [k \in 0..(2 ^ Dec(last.nQubits) - 1) |-> Zero]
          /\ ~valid(last.nQubits) => (err = InvalidQubitCount /\ state = NoState)
     /\ (pc # "idle" /\ ~valid(circuit.nQubits)) =>
          /\ pc = "thrown"
          /\ err = InvalidQubitCount
          /\ state = NoState
          /\ applied = <<>>

C10_Witness ==
  /\ last.kind = "zeroState"
  /\ last.nQubits = Enc(2)
  /\ err = OK
  /\ state.re[0] = One
  /\ Length(state.re) = 4

\* C11: X, Y, Z, H, CNOT, CZ and SWAP are their own inverses: once one of
\* them has run on a register, the same kernel with the same arguments runs
\* again without error and leaves the buffer as it was before the first call.
SelfInverseKinds == {"X", "Y", "Z", "H", "CNOT", "CZ", "SWAP"}

C11_SelfInverse ==
  (pc = "idle" /\ Ran(SelfInverseKinds)) =>
    /\ applyOp(state, last).err = OK
    /\ applyOp(state, last).state = prev

C11_Witness ==
  /\ pc = "idle"
  /\ Ran({"Y"})
  /\ depth = 3
  /\ state # prev
  /\ \E k \in DOMAIN prev.re : prev.re[k] \notin {Zero, One, MinusOne}

\* the register after the ops of the list ran on st, each through its kernel
RECURSIVE ApplyAll(_, _, _)
ApplyAll(st, ops, k) ==
  IF k > Len(ops) THEN st ELSE ApplyAll(applyOp(st, ops[k]).state, ops, k + 1)

\* the register simulateCircuit holds when it enters step s of circuit c
RECURSIVE BeforeStep(_, _)
BeforeStep(c, s) ==
  IF s = 1 THEN zeroState(c.nQubits).state
  ELSE ApplyAll(BeforeStep(c, s - 1), c.steps[s - 1], 1)

\* the orders in which n ops can be listed
Perms(n) == {f \in [1..n -> 1..n] : \A i, j \in 1..n : i # j => f[i] # f[j]}
Permuted(ops, f) == [k \in 1..Len(ops) |-> ops[f[k]]]

\* C12: when simulateCircuit has applied all ops of a validated step, the
\* register is what any other order of the ops of that step would have left,
\* and the register it returns is what the circuit with the ops of any one
\* step listed in any other order would have returned.
C12_OrderInsideStep ==
  /\ (pc = "ops" /\ opIdx > Len(circuit.steps[stepIdx])) =>
       \A f \in Perms(Len(circuit.steps[stepIdx])) :
         ApplyAll(BeforeStep(circuit, stepIdx), Permuted(circuit.steps[stepIdx], f), 1) = state
  /\ pc = "returned" =>
       \A s \in 1..Len(circuit.steps) :
         \A f \in Perms(Len(circuit.steps[s])) :
           LET c == [circuit EXCEPT !.steps[s] = Permuted(@, f)]
           IN BeforeStep(c, Len(c.steps) + 1) = state

C12_Witness ==
  /\ pc = "returned"
  /\ Len(circuit.steps) = 1
  /\ Len(circuit.steps[1]) = 2
  /\ circuit.steps[1][1].kind = "H"
  /\ circuit.steps[1][2].kind = "RY"
  /\ \A k \in DOMAIN state.re : state.re[k] # Zero

\* the ops of a list that are not MEASURE, in order
RECURSIVE WithoutMeasure(_)
WithoutMeasure(ops) ==
  IF ops = <<>> THEN <<>>
  ELSE (IF Head(ops).kind = "MEASURE" THEN <<>> ELSE <<Head(ops)>>) \o WithoutMeasure(Tail(ops))

\* every MEASURE of the step has its target in range and shares it with no other op
MeasureValid(step, n) ==
  \A k \in 1..Len(step) :
    step[k].kind = "MEASURE" =>
      /\ InRange(step[k].target, n)
      /\ \A l \in 1..Len(step) :
           l # k => \A x \in 1..Len(touchedQubits(step[l])) :
                      touchedQubits(step[l])[x] # step[k].target

\* C13: a step with a MEASURE whose target is out of range or touched by
\* another op of the step does not pass validation; applying MEASURE leaves
\* the buffer as it was; and the register simulateCircuit returns is the one
\* the circuit without its MEASURE ops would have returned.
C13_MeasureIsIdentity ==
  /\ pc = "ops" => MeasureValid(circuit.steps[stepIdx], Dec(circuit.nQubits))
  /\ (pc # "idle" /\ last.kind = "MEASURE") =>
       /\ state = prev
       /\ pc # "thrown" => err = OK
  /\ pc = "returned" =>
       /\ \A s \in 1..Len(circuit.steps) : MeasureValid(circuit.steps[s], Dec(circuit.nQubits))
       /\ LET c == [circuit EXCEPT !.steps = [s \in 1..Len(@) |-> WithoutMeasure(@[s])]]
          IN BeforeStep(c, Len(c.steps) + 1) = state

C13_Witness ==
  /\ pc = "returned"
  /\ Len(applied) = 2
  /\ circuit.steps[1][1].kind = "RY"
  /\ \E s \in 1..Len(circuit.steps) : circuit.steps[s][Len(circuit.steps[s])].kind = "MEASURE"
  /\ prev.re[0] = Sqrt1_2
  /\ state = prev

\* C19: probabilities(S) returns 2^n entries, entry k being re[k]^2 + im[k]^2
\* as it stands (the entries of a reachable register sum to 1 without being
\* scaled), and leaves S as it was.
C19_Probabilities ==
  Ran({"probabilities"}) =>
    /\ DOMAIN probs = 0..(2 ^ state.nQubits - 1)
    /\ \A k \in DOMAIN probs : probs[k] = Add(Mul(prev.re[k], prev.re[k]), Mul(prev.im[k], prev.im[k]))
    /\ state = prev

C19_Witness ==
  /\ Ran({"probabilities"})
  /\ state.nQubits = 2
  /\ \E k \in DOMAIN probs : state.re[k] # Zero /\ state.im[k] # Zero /\ probs[k] # One

\* sum of the function f over a finite set of indices
RECURSIVE SumOver(_, _)
SumOver(S, f) ==
  IF S = {} THEN Cx(Zero, Zero)
  ELSE LET i == CHOOSE x \in S : TRUE
       IN CAdd(f[i], SumOver(S \ {i}, f))

Conj(x) == Cx(x.re, Neg(x.im))

\* C20: blochVector(S, q) returns (2 Re rho01, -2 Im rho01, rho00 - rho11), the
\* sums rho00 = |S[i]|^2, rho11 = |S[j]|^2 and rho01 = S[i] * conj(S[j]) taken
\* over the pairs (i, j = i + 2^(n-1-q)) with the q-bit of i clear; |0> gives
\* (0, 0, 1), X|0> (0, 0, -1), H|0> (1, 0, 0) and S H|0> (0, 1, 0); S stays as
\* it was, and an index out of range gives InvalidQubitIndex.
C20_BlochVector ==
  last.kind = "blochVector" =>
    LET n == state.nQubits
        zero1 == zeroState(Enc(1)).state
        plus1 == applyH(zero1, Enc(0)).state
    IN /\ state = prev
       /\ (err = OK) <=> InRange(last.qubit, n)
       /\ err # OK => err = InvalidQubitIndex
       /\ err = OK =>
            LET q == Dec(last.qubit)
                lows == {i \in DOMAIN state.re : BitOf(i, n, q) = 0}
                hi(i) == i + Weight(n, q)
                S00 == [i \in lows |-> CMul(Amp(state, i), Conj(Amp(state, i)))]
                S11 == [i \in lows |-> CMul(Amp(state, hi(i)), Conj(Amp(state, hi(i))))]
                S01 == [i \in lows |-> CMul(Amp(state, i), Conj(Amp(state, hi(i))))]
                rho00 == SumOver(lows, S00)
                rho11 == SumOver(lows, S11)
                rho01 == SumOver(lows, S01)
            IN /\ bloch.x = Mul(Two, rho01.re)
               /\ bloch.y = Neg(Mul(Two, rho01.im))
               /\ bloch.z = Sub(rho00.re, rho11.re)
               /\ state = zero1 => bloch = [x |-> Zero, y |-> Zero, z |-> One]
               /\ state = applyX(zero1, Enc(0)).state =>
                    bloch = [x |-> Zero, y |-> Zero, z |-> MinusOne]
               /\ state = plus1 => bloch = [x |-> One, y |-> Zero, z |-> Zero]
               /\ state = applyS(plus1, Enc(0)).state =>
                    bloch = [x |-> Zero, y |-> One, z |-> Zero]

C20_Witness ==
  /\ Ran({"blochVector"})
  /\ state = applyS(applyH(zeroState(Enc(1)).state, Enc(0)).state, Enc(0)).state
  /\ bloch.y = One

-----------------------------------------------------------------------------
(* C14 *)

\* twice the value of a finite number
Twice(x) ==
  LET m == 2 * (x.mag[1] + x.mag[2] * 2 ^ 16) + (IF x.half THEN 1 ELSE 0)
  IN IF x.neg THEN -m ELSE m

\* the whole shots a finite non-negative number asks for: the n with
\* n <= shots < n + 1
WholeShots(shots) ==
  CHOOSE n \in 0..(MaxShots + 1) : 2 * n <= Twice(shots) /\ Twice(shots) < 2 * n + 2

\* the sum of the entries of an array of integers
RECURSIVE Total(_, _)
Total(counts, k) == IF k < 0 THEN 0 ELSE counts[k] + Total(counts, k - 1)

SumOfCounts(counts) == Total(counts, Length(counts) - 1)

\* the probabilities handed to the running call sum to more than 0
RECURSIVE SumOfProbs(_, _)
SumOfProbs(p, k) == IF k < 0 THEN Zero ELSE Add(p[k], SumOfProbs(p, k - 1))

SumOfProbsPositive == SumOfProbs(args[1], Length(args[1]) - 1).a > 0

\* C14 as stated: with sum of probs > 0 and a finite shots >= 0, the
\* returned counts sum to shots and are as long as probs
C14_CountsSumToShots_Stated ==
  (spc = "returned" /\ SumOfProbsPositive /\ args[2].kind = "finite" /\ ~args[2].neg) =>
    /\ Length(loc.counts) = Length(args[1])
    /\ 2 * SumOfCounts(loc.counts) = Twice(args[2])

\* C14: the returned counts are as long as probs whatever the arguments,
\* and with sum of probs > 0 they sum to floor(shots) for a finite shots >= 0
\* and to 0 for a negative or non-finite shots
C14_CountsSumToShots ==
  spc = "returned" =>
    /\ Length(loc.counts) = Length(args[1])
    /\ DOMAIN loc.counts = DOMAIN args[1]
    /\ SumOfProbsPositive =>
         SumOfCounts(loc.counts) =
           IF args[2].kind # "finite" \/ args[2].neg THEN 0 ELSE WholeShots(args[2])

C14_Witness ==
  /\ spc = "returned"
  /\ SumOfProbsPositive
  /\ args[2] = NumHalf(1)
  /\ Length(loc.counts) = 4
  /\ SumOfCounts(loc.counts) = 1
  /\ loc.counts[0] = 0

-----------------------------------------------------------------------------
(* C15 *)

-----------------------------------------------------------------------------
(* C17 *)

\* the cdf of the running call never decreases
NonDecreasing(cdf) ==
  \A k \in DOMAIN cdf : (k + 1) \in DOMAIN cdf => Sub(cdf[k + 1], cdf[k]).a >= 0

\* the least number of halvings that bring n candidates down to one
RECURSIVE Halvings(_)
Halvings(n) == IF n <= 1 THEN 0 ELSE 1 + Halvings((n + 1) \div 2)

\* C17: after each shot, the index the search ended on is the smallest k
\* with r <= cdf[k], the search made at most log2(len) rounds, and counts
\* differs from what it was before the shot by one more at that index only
C17_BinarySearch ==
  (spc = "loop" /\ loc.s > 0 /\ NonDecreasing(loc.cdf)) =>
    /\ loc.lo \in DOMAIN loc.cdf
    /\ rLeq(loc.u, loc.total, loc.cdf[loc.lo])
    /\ \A k \in DOMAIN loc.cdf : k < loc.lo => ~rLeq(loc.u, loc.total, loc.cdf[k])
    /\ loc.iters <= Halvings(Length(loc.cdf))
    /\ loc.counts = [k \in DOMAIN loc.before |->
                       IF k = loc.lo THEN loc.before[k] + 1 ELSE loc.before[k]]

C17_Witness ==
  /\ spc = "loop"
  /\ loc.s >= 2
  /\ Length(loc.cdf) = 4
  /\ loc.lo \in {1, 2}
  /\ loc.iters = 2
  /\ loc.before # Uint32Array(4)

-----------------------------------------------------------------------------
(* C18 *)

\* C18: the call makes max(0, floor(shots)) shots, none for a non-finite
\* shots, and with no shots to make, an empty probs or probs that sum to 0
\* it returns at once an all-zero counts as long as probs
C18_DegenerateInput ==
  spc # "idle" =>
    /\ loc.safeShots =
         IF args[2].kind # "finite" \/ args[2].neg THEN 0 ELSE WholeShots(args[2])
    /\ (loc.safeShots = 0 \/ Length(args[1]) = 0 \/ ~SumOfProbsPositive) =>
         /\ spc = "returned"
         /\ loc.s = 0
         /\ loc.counts = [k \in DOMAIN args[1] |-> 0]

C18_Witness ==
  /\ spc = "returned"
  /\ args[2] = Num(MaxShots)
  /\ Length(args[1]) = 2
  /\ ~SumOfProbsPositive
  /\ loc.counts = Uint32Array(2)

-----------------------------------------------------------------------------
(* C16 *)

\* the state of the Mulberry32 recurrence after n calls: seed cast to uint32
\* plus n times the increment, modulo 2^32
Mulberry32State(seed, n) == WordAdd(ToUint32(seed), imul(n, Increment))

\* the number of calls made on gen
Calls ==
  WordAdd(IF gen.ran THEN LongRun ELSE Word(0, 0), Word(0, gen.early + gen.drawn))

\* C16: every value the generator returns is the output of the bit-exact
\* Mulberry32 recurrence at that draw index, a uint32 over 2^32, whatever
\* the seed and however many draws were made before
C16_BitExactMulberry32 ==
  (gen # NoGen /\ gen.drawn > 0) =>
    /\ gen.u = rngOutput(Mulberry32State(gen.seed, Calls))
    /\ gen.u.hi \in 0..(2 ^ 16 - 1)
    /\ gen.u.lo \in 0..(2 ^ 16 - 1)

-----------------------------------------------------------------------------
(* C26 *)

\* the positions of the ops of the steps before step s
RECURSIVE PositionsBefore(_, _, _, _)
PositionsBefore(c, s, k, o) ==
  IF k >= s THEN <<>>
  ELSE IF o > Len(c.steps[k]) THEN PositionsBefore(c, s, k + 1, 1)
  ELSE <<<<k, o>>>> \o PositionsBefore(c, s, k, o + 1)

\* step s of the running circuit names a qubit out of range or holds two
\* ops that touch a common qubit
BadStep(c, s) ==
  \/ ~StepInRange(c.steps[s], Dec(c.nQubits))
  \/ TwoOpsOverlap(c.steps[s])

\* C26: a step that names an out-of-range qubit or holds overlapping ops is
\* never entered: the call has thrown once the step was looked at, and
\* whenever the call has thrown on a register of valid width, the ops
\* applied are exactly those of the steps before the failing one and the
\* buffer is the result of those steps, fully applied
C26_StepIsValidatedFirst ==
  /\ (pc = "ops" /\ circuit.nQubits \in CircuitCounts) => ~BadStep(circuit, stepIdx)
  /\ (pc = "thrown" /\ assertValidQubitCount(circuit.nQubits) = OK) =>
       /\ err # OK
       /\ applied = PositionsBefore(circuit, stepIdx, 1, 1)
       /\ state = BeforeStep(circuit, stepIdx)

C26_Witness ==
  /\ pc = "thrown"
  /\ stepIdx = 1
  /\ Len(circuit.steps) >= 1
  /\ Len(circuit.steps[1]) = 2
  /\ circuit.steps[1][1].kind = "H"
  /\ ~StepInRange(<<circuit.steps[1][2]>>, Dec(circuit.nQubits))
  /\ applied = <<>>
  /\ state = zeroState(circuit.nQubits).state

-----------------------------------------------------------------------------
(* C27 *)

\* C27: with non-negative probabilities of positive sum, an index of
\* probability 0 is never counted, during the shot loop or on return
C27_ZeroProbabilityNeverCounted ==
  (spc # "idle" /\ SumOfProbsPositive /\ \A k \in DOMAIN args[1] : args[1][k].a >= 0) =>
    \A k \in DOMAIN args[1] : args[1][k] = Zero => loc.counts[k] = 0

-----------------------------------------------------------------------------
(* C22 *)

\* the number a string of binary digits denotes, leftmost digit most significant
RECURSIVE ParseBinary(_)
ParseBinary(str) ==
  IF str = <<>> THEN 0
  ELSE 2 * ParseBinary(SubSeq(str, 1, Len(str) - 1)) + (IF str[Len(str)] = "1" THEN 1 ELSE 0)

\* C22: the string bitstring returned for a basis index of an n-qubit
\* register has n characters, each '0' or '1', and denotes the index when
\* read as a binary number with the leftmost character (q0) most
\* significant; the five strings of the test hold
C22_Bitstring ==
  /\ bits # NoBits =>
       /\ Len(bits.text) = bits.nQubits
       /\ \A i \in 1..Len(bits.text) : bits.text[i] \in {"0", "1"}
       /\ ParseBinary(bits.text) = bits.index
  /\ (bits.nQubits = 3 /\ bits.index = 1) => bits.text = <<"0", "0", "1">>
  /\ (bits.nQubits = 3 /\ bits.index = 4) => bits.text = <<"1", "0", "0">>

C22_Witness ==
  /\ bits.nQubits = 3
  /\ bits.index = 1
  /\ bits.text = <<"0", "0", "1">>

-----------------------------------------------------------------------------
(* C23 *)

\* the value is a number without a fractional part
IsIntegerValue(x) == x.type = "number" /\ x.num.kind = "finite" /\ ~x.num.half

\* the decoded document is one the decoder has to reject
MustReject(doc) ==
  \/ IsNotOne(Get(doc, "v"))
  \/ ~IsIntegerValue(Get(Get(doc, "circuit"), "nQubits"))
  \/ Get(Get(doc, "circuit"), "steps").type # "array"
  \/ ~isFinite(Get(doc, "seed"))
  \/ ~isFinite(Get(doc, "shots"))

\* C23: the decoder returns null when the version is not 1, nQubits is not
\* an integer, steps is not a list, or seed or shots is not a finite number,
\* and returns the parsed payload otherwise
C23_DecoderRejects ==
  (shared # NoShared /\ shared.encoded.wellFormed) =>
    shared.result = IF MustReject(shared.encoded.json) THEN JNull ELSE shared.encoded.json

-----------------------------------------------------------------------------
(* C21 *)

\* C21: the state simulateCircuit returns for the entangling chain on n
\* qubits (n = 2 Bell, n = 3 GHZ) has amplitude (1/sqrt 2, 0) at the basis
\* indices 0 and 2^n - 1 and (0, 0) at every other index, and every Bloch
\* vector read from the Bell pair is (0, 0, 0)
C21_BellAndGHZ ==
  /\ (pc = "returned" /\ circuit \in Chains) =>
       /\ state.re = [k \in 0..(2 ^ state.nQubits - 1) |->
                        IF k = 0 \/ k = 2 ^ state.nQubits - 1 THEN Sqrt1_2 ELSE Zero]
       /\ state.im = [k \in 0..(2 ^ state.nQubits - 1) |-> Zero]
  /\ (pc = "returned" /\ circuit \in Chains /\ state.nQubits = 2
        /\ last.kind = "blochVector") =>
       /\ err = OK
       /\ bloch = [x |-> Zero, y |-> Zero, z |-> Zero]

C21_Witness ==
  /\ pc = "returned"
  /\ circuit = Chain(2, 2)
  /\ last = [kind |-> "blochVector", qubit |-> Enc(1)]
  /\ state.re[3] = Sqrt1_2
  /\ state.re[1] = Zero
  /\ bloch = [x |-> Zero, y |-> Zero, z |-> Zero]

-----------------------------------------------------------------------------
(* C25: the caps of the front-end *)

\* C25: in every state of the editor, those opened from a share link
\* included, the circuit the sim memo hands to simulateCircuit has at most
\* MAX_QUBITS qubits, and the shot count the counts memo hands to
\* sampleAllQubits is at most 200000.
C25_FrontEndCaps ==
  ed.open =>
    /\ ed.circuit.nQubits <= Enc(MAX_QUBITS)
    /\ countsMemo(ed) # Null =>
          /\ countsMemo(ed).safeShots.kind = "finite"
          /\ ~countsMemo(ed).safeShots.half
          /\ BigLeq(countsMemo(ed).safeShots.mag, MaxShotsUI.mag)

-----------------------------------------------------------------------------
(* C30: the qubit of the Bloch panel *)

-----------------------------------------------------------------------------
(* C28: the editor keeps its circuit valid *)

\* the qubits of an op, as the editor names them
QubitsOf(op) ==
  IF op.kind \in {"CNOT", "CZ"} THEN {op.control, op.target}
  ELSE IF op.kind = "SWAP" THEN {op.a, op.b}
  ELSE {op.target}

IsTwoQubit(op) == op.kind \in {"CNOT", "CZ", "SWAP"}

\* the circuit is one the editor is meant to hold
WellFormed(c) ==
  /\ IsInteger(c.nQubits)
  /\ Enc(1) <= c.nQubits /\ c.nQubits <= Enc(MAX_QUBITS)
  /\ 1 <= Len(c.steps) /\ Len(c.steps) <= MAX_STEPS
  /\ \A s \in 1..Len(c.steps) :
       /\ \A k \in 1..Len(c.steps[s]) :
            /\ \A q \in QubitsOf(c.steps[s][k]) :
                 IsInteger(q) /\ Enc(0) <= q /\ q < c.nQubits
            /\ IsTwoQubit(c.steps[s][k]) => Cardinality(QubitsOf(c.steps[s][k])) = 2
       /\ \A k, l \in 1..Len(c.steps[s]) :
            k # l => QubitsOf(c.steps[s][k]) \cap QubitsOf(c.steps[s][l]) = {}

\* C28: opened on a built-in preset (no share link), the editor holds after
\* any sequence of selectTool, onCellClick on a cell of the grid, addStep,
\* removeStep, addQubit, removeQubit, clearCircuit and loadPreset a circuit
\* that passes the validation of simulateCircuit: 1 <= nQubits <= 12, 1 <=
\* number of steps <= 48, every qubit index of every op in [0, nQubits), the
\* two qubits of a two-qubit op distinct, and no two ops of a step on a
\* common qubit.
C28_EditorCircuitIsValid ==
  ed.open /\ ed.shared = JNull =>
    /\ WellFormed(ed.circuit)
    /\ sim(ed).error = OK

\* both caps are reached with a two-qubit gate on the grid
C28_Witness ==
  /\ ed.open /\ ed.shared = JNull
  /\ ed.circuit.nQubits = Enc(MAX_QUBITS)
  /\ Len(ed.circuit.steps) = MAX_STEPS
  /\ ed.event.name \in {"addQubit", "addStep"}
  /\ \E s \in 1..Len(ed.circuit.steps) :
       \E k \in 1..Len(ed.circuit.steps[s]) : IsTwoQubit(ed.circuit.steps[s][k])

-----------------------------------------------------------------------------
(* C29: placing a two-qubit gate takes two clicks *)

\* the op a second click places: the first-clicked qubit is control (or a)
PlacedOp(tool, first, second) ==
  IF tool = "SWAP" THEN [kind |-> "SWAP", a |-> first, b |-> second]
  ELSE [kind |-> tool, control |-> first, target |-> second]

\* op is in step s (from 1) of c
HasOp(c, s, op) == s <= Len(c.steps) /\ \E k \in 1..Len(c.steps[s]) : c.steps[s][k] = op

\* one handler took the editor from e to f
TwoClickRule(e, f) ==
  LET ev == f.event
      isClick == ev.name = "onCellClick"
      second == /\ e.pending # Null
                /\ e.pending.tool = e.tool
                /\ e.pending.step = ev.step
  IN /\ \A s \in 1..Len(f.circuit.steps) : \A k \in 1..Len(f.circuit.steps[s]) :
          LET op == f.circuit.steps[s][k]
          IN (IsTwoQubit(op) /\ ~HasOp(e.circuit, s, op) /\ ev.name # "loadPreset") =>
               /\ isClick /\ ev.step = s - 1
               /\ e.tool \in TwoQubitTools
               /\ second
               /\ e.pending.qubit # ev.qubit
               /\ op = PlacedOp(e.tool, e.pending.qubit, ev.qubit)
               /\ f.circuit.steps[s] =
                    SelectSeq(e.circuit.steps[s],
                              LAMBDA o : QubitsOf(o) \cap {e.pending.qubit, ev.qubit} = {})
                    \o <<op>>
               /\ \A t \in 1..Len(f.circuit.steps) :
                    t # s => f.circuit.steps[t] = e.circuit.steps[t]
               /\ f.circuit.nQubits = e.circuit.nQubits
               /\ Len(f.circuit.steps) = Len(e.circuit.steps)
               /\ f.pending = Null
     /\ (isClick /\ e.tool \in TwoQubitTools /\ ~second) =>
          /\ f.pending = [tool |-> e.tool, step |-> ev.step, qubit |-> ev.qubit]
          /\ f.circuit = e.circuit
     /\ (isClick /\ e.tool \in TwoQubitTools /\ second /\ e.pending.qubit = ev.qubit) =>
          /\ f.pending = Null
          /\ f.circuit = e.circuit
     /\ (isClick /\ e.tool \in TwoQubitTools /\ second /\ e.pending.qubit # ev.qubit) =>
          /\ f.pending = Null
          /\ HasOp(f.circuit, ev.step + 1, PlacedOp(e.tool, e.pending.qubit, ev.qubit))
     /\ ev.name \in {"selectTool", "removeStep", "addQubit", "removeQubit",
                      "clearCircuit", "loadPreset"} =>
          f.pending = Null

-----------------------------------------------------------------------------
(* The results panel after a failed simulation *)

\* No handler takes the editor from a circuit simulateCircuit accepts to one
\* it rejects: a circuit that raises comes from a share link, at the first
\* render, when no result has been shown yet.  With the error on screen the
\* panel holds no result (results(e).of is null): sim, counts, topAmplitudes,
\* histogram and bloch are recomputed from the circuit on every render.
EditorStaysValid ==
  [][(ed.open /\ ed'.open /\ sim(ed).error = OK) => sim(ed').error = OK]_vars

\* an editor opened on a circuit that raises comes to one that simulates
EditorRecovers ==
  /\ ed.open /\ ed.shared # JNull
  /\ sim(useModel(TRUE, [wellFormed |-> TRUE, json |-> ed.shared])).error # OK
  /\ sim(ed).error = OK

====
